---- MODULE Spec2Model ----
(***************************************************************************)
(* A model of the repository-audit engine                                  *)
(* (skills/optimizing-claude-code/scripts/audit_repo.py).                  *)
(*                                                                         *)
(* Texts are sequences of lexemes: one-character strings, plus a few       *)
(* whole lower-case words ("build", "invalid", ...) that stand for the     *)
(* run of word characters they spell.  Paths are sequences of components;  *)
(* a path is absolute when it is anchored at the filesystem root, which    *)
(* the model marks with the first component "/".                           *)
(***************************************************************************)
EXTENDS Integers, Sequences, FiniteSets, TLC

VARIABLES
    \* ---- the environment the process runs in (never written by the audit)
    root_kind,            \* what --root names: "missing", "file" or "dir"
    include_user_scope,   \* the --include-user-scope flag
    fs,                   \* existing plain files: absolute path -> text
    other_files,          \* number of further plain files under <root>/src
    git,                  \* the version-control side: metadata dir, tool outcome
    scan_reversed,        \* the order in which the OS lists directory entries
    clock,                \* the wall clock read by datetime.now()
    \* ---- the process: main() and the locals of audit()
    pc,
    run,                  \* 1 for the first invocation, 2 for the repeated one
    tracked, file_count, file_count_source, large_repo,
    memory_reports, settings_reports, mcp_reports, skill_reports,
    subagent_reports, dir_stats, all_issues, all_recommendations,
    report, stdout, stderr, status,
    prev_stdout,          \* what the first invocation printed
    \* ---- inputs and results of the pure functions checked on their own
    fn_in, fn_out

env_vars == <<root_kind, include_user_scope, fs, other_files, git, scan_reversed>>
audit_vars == <<tracked, file_count, file_count_source, large_repo,
                memory_reports, settings_reports, mcp_reports, skill_reports,
                subagent_reports, dir_stats, all_issues, all_recommendations,
                report>>
proc_vars == <<pc, run, stdout, stderr, status, prev_stdout, clock>>
fn_vars == <<fn_in, fn_out>>
vars == <<env_vars, audit_vars, proc_vars, fn_vars>>

None == "None"

(***************************************************************************)
(* Bounds of the model.                                                    *)
(***************************************************************************)
\* The invocation and its environment differ from a plain invocation on an
\* empty project (no flag, no artifact file, no other file, no version
\* control, default listing order) in at most this many ways.
MaxDeviations == 2
\* Longest text given to the reference extractor.
MaxTextLen == 4
\* Longest reference token given to the reference resolver.
MaxTokenLen == 3
\* The runs of a skill name handed to sanitize_name.
MaxNameRuns == 3
\* The files a skill directory can hold besides its SKILL.md.
MaxExtraFiles == 1
\* The create, move and delete calls made on the subagent files.
MaxCalls == 2

(***************************************************************************)
(* Program constants.                                                      *)
(***************************************************************************)
LargeRepoThreshold == 3000
MaxHotspots == 20
ManyServers == 10

(***************************************************************************)
(* Text: lexeme classes of Python's re module (\w, \s) and str methods.    *)
(***************************************************************************)
\* A lexeme that spells a run of newline characters, with the length of the
\* run: documents of hundreds of lines are written with these.
NewlineRuns ==
    {<<"\n*299", 299>>, <<"\n*300", 300>>, <<"\n*497", 497>>,
     <<"\n*498", 498>>, <<"\n*499", 499>>, <<"\n*500", 500>>,
     <<"\n*596", 596>>}
NewlineRunLex == {r[1] : r \in NewlineRuns}
\* Number of newline characters a lexeme spells.
Newlines(e) ==
    IF e = "\n" THEN 1
    ELSE IF e \in NewlineRunLex THEN (CHOOSE r \in NewlineRuns : r[1] = e)[2]
    ELSE 0

SpaceLex == {" ", "\n", "\t"} \cup NewlineRunLex
\* The lexeme of the backtick character.
Backtick == "backtick"
PunctLex == {"@", Backtick, "~", "/", ".", "-", "#", "!", ",", ":",
             "{", "}", "[", "]", "\"", "(", ")", "*"}

\* \s
IsSpace(e) == e \in SpaceLex
\* \w : anything that is neither whitespace nor punctuation is a letter,
\* a digit, an underscore or a whole word of letters.
IsWord(e) == e \notin SpaceLex /\ e \notin PunctLex

\* Number of characters a lexeme spells.
CharLen(e) ==
    CASE e = "build" -> 5
      [] e = "test" -> 4
      [] e = "lint" -> 4
      [] e = "architecture" -> 12
      [] e = "structure" -> 9
      [] e = "Build" -> 5
      [] e = "description" -> 11
      [] e = "Description" -> 11
      [] e = "invalid" -> 7
      [] e = "null" -> 4
      [] e = "permissions" -> 11
      [] e = "allow" -> 5
      [] e = "deny" -> 4
      [] e = "mcpServers" -> 10
      [] e = "customInstructions" -> 18
      [] e = "Bash" -> 4
      [] e = "Safe" -> 4
      [] e = "Read" -> 4
      [] e = "notes" -> 5
      [] e = "txt" -> 3
      [] e = "bob" -> 3
      [] e \in NewlineRunLex -> Newlines(e)
      [] OTHER -> 1

\* str.lower() on one lexeme.
LowerLex(e) ==
    CASE e = "Build" -> "build"
      [] e = "Description" -> "description"
      [] e = "A" -> "a"
      [] OTHER -> e

\* str.lower()
Lower(text) == [i \in 1..Len(text) |-> LowerLex(text[i])]

\* len(data) of the bytes of an ASCII text.
RECURSIVE ByteLen(_)
ByteLen(text) ==
    IF text = <<>> THEN 0 ELSE CharLen(Head(text)) + ByteLen(Tail(text))

\* text.count("\n")
RECURSIVE CountNewlines(_)
CountNewlines(text) ==
    IF text = <<>> THEN 0 ELSE Newlines(Head(text)) + CountNewlines(Tail(text))

\* 'word in text' for a word of the vocabulary: the word is one lexeme.
Contains(text, word) == \E i \in 1..Len(text) : text[i] = word

\* len(text.split()): the number of maximal runs of non-whitespace.
WordCount(text) ==
    Cardinality({i \in 1..Len(text) :
                   /\ ~IsSpace(text[i])
                   /\ (i = 1 \/ IsSpace(text[i-1]))})

\* str.strip()
RECURSIVE LStrip(_)
LStrip(text) ==
    IF text # <<>> /\ IsSpace(Head(text)) THEN LStrip(Tail(text)) ELSE text
RECURSIVE RStrip(_)
RStrip(text) ==
    IF text # <<>> /\ IsSpace(text[Len(text)])
    THEN RStrip(SubSeq(text, 1, Len(text) - 1)) ELSE text
Strip(text) == LStrip(RStrip(text))

\* The regular expression ^#{1,6}\s+ under re.MULTILINE matches at i.
HeadingAt(text, i) ==
    /\ i \in 1..Len(text)
    /\ (i = 1 \/ Newlines(text[i-1]) > 0)
    /\ \E k \in 1..6 :
          /\ i + k <= Len(text)
          /\ \A j \in i..(i + k - 1) : text[j] = "#"
          /\ IsSpace(text[i + k])

\* len(re.findall(r'^#{1,6}\s+', text, re.MULTILINE)): a match starts at a
\* line start and consumes only '#' and whitespace, so it never swallows the
\* start of another match.
CountHeadings(text) == Cardinality({i \in 1..Len(text) : HeadingAt(text, i)})

\* Variant: the pattern is searched without re.MULTILINE, so only the first
\* line can match.
HasHeadings_FirstLineOnly(text) == HeadingAt(text, 1)
\* bool(re.search(r'^#{1,6}\s+', text, re.MULTILINE))
HasHeadings(text) == \E i \in 1..Len(text) : HeadingAt(text, i)

(***************************************************************************)
(* Reference extractor.                                                    *)
(*   IMPORT_RE = (?<!BACKTICK)\B@([~/.\w\-\s/]+[.\w\-\s/])                  *)
(***************************************************************************)
\* [~/.\w\-\s/]
InTokenClass(e) == e \in {"~", "/", ".", "-"} \/ IsWord(e) \/ IsSpace(e)
\* [.\w\-\s/]
InTokenEndClass(e) == e \in {"/", ".", "-"} \/ IsWord(e) \/ IsSpace(e)

\* The lookbehind and \B before '@': an '@' at i that follows neither a backtick nor a word
\* character ('@' is no word character, so \B asks for a non-word neighbour
\* or the start of the text).
ImportStartsAt(text, i) ==
    /\ text[i] = "@"
    /\ i > 1 => (text[i-1] # Backtick /\ ~IsWord(text[i-1]))

\* Last index of the maximal run of token-class lexemes following i.
RECURSIVE RunEnd(_, _)
RunEnd(text, i) ==
    IF i + 1 <= Len(text) /\ InTokenClass(text[i+1])
    THEN RunEnd(text, i + 1) ELSE i

\* Ends of the group for a match at i: the greedy '+' backs off until the
\* last lexeme is in the end class; the group spans at least two characters.
GroupEnds(text, i) ==
    {e \in (i + 1)..RunEnd(text, i) :
        /\ InTokenEndClass(text[e])
        /\ (e >= i + 2 \/ CharLen(text[i+1]) >= 2)}

\* The greatest element of S, or 0 when S is empty.
MaxOrZero(S) == IF S = {} THEN 0 ELSE CHOOSE x \in S : \A y \in S : y <= x

\* End of the match that starts at i, or 0 when the pattern fails there.
MatchEnd(text, i) ==
    IF ImportStartsAt(text, i) THEN MaxOrZero(GroupEnds(text, i)) ELSE 0

\* IMPORT_RE.finditer(text) from position i: the matches left to right,
\* without overlap, each as [start, stop, group].  FindFrom continues the
\* scan once the attempt at i is known to end at stop (0: no match at i).
RECURSIVE FindIter(_, _)
RECURSIVE FindFrom(_, _, _)
FindFrom(text, i, stop) ==
    IF stop = 0 THEN FindIter(text, i + 1)
    ELSE <<[start |-> i, stop |-> stop, group |-> SubSeq(text, i + 1, stop)]>>
         \o FindIter(text, stop + 1)
FindIter(text, i) ==
    IF i > Len(text) THEN <<>> ELSE FindFrom(text, i, MatchEnd(text, i))

\* The elements of s at the indices in keep, in order (a comprehension
\* [x for x in s if ...]).
RECURSIVE Pick(_, _)
Pick(s, keep) ==
    IF s = <<>> THEN <<>>
    ELSE Pick(SubSeq(s, 1, Len(s) - 1), keep)
         \o (IF Len(s) \in keep THEN <<s[Len(s)]>> ELSE <<>>)

\* The matches whose stripped group survives the e-mail filter
\* ("@" not in x).
NotEmailLike(token) == ~Contains(token, "@")
KeepNotEmailLike(found) ==
    Pick(found, {k \in 1..Len(found) : NotEmailLike(Strip(found[k].group))})
ImportMatches(text) == KeepNotEmailLike(FindIter(text, 1))

\* m.group(1).strip() for each match
StrippedGroups(matches) == [k \in 1..Len(matches) |-> Strip(matches[k].group)]

\* _extract_imports
ExtractImports(text) == StrippedGroups(ImportMatches(text))

(***************************************************************************)
(* Paths.  A path is a sequence of components, each component a text; an   *)
(* absolute path starts with the component Slash.                          *)
(***************************************************************************)
Slash == <<"/">>
\* The root as pathlib spells it after exactly two leading slashes.
DoubleSlash == <<"/", "/">>
Dot == <<".">>
DotDot == <<".", ".">>

\* The components of a path string: the runs between '/' lexemes.
RECURSIVE SplitSlash(_, _)
SplitSlash(raw, cur) ==
    IF raw = <<>> THEN (IF cur = <<>> THEN <<>> ELSE <<cur>>)
    ELSE IF Head(raw) = "/"
         THEN (IF cur = <<>> THEN <<>> ELSE <<cur>>) \o SplitSlash(Tail(raw), <<>>)
         ELSE SplitSlash(Tail(raw), Append(cur, Head(raw)))

\* Index of the first lexeme of raw at or after i that is no '/', or
\* Len(raw) + 1.
RECURSIVE FindSlashEnd(_, _)
FindSlashEnd(raw, i) ==
    IF i > Len(raw) \/ raw[i] # "/" THEN i ELSE FindSlashEnd(raw, i + 1)

\* pathlib.Path(raw): empty and '.' components are dropped; two leading
\* slashes, and only two, are kept.
WithoutDots(comps) == Pick(comps, {k \in 1..Len(comps) : comps[k] # Dot})
Anchor(slashes) ==
    IF slashes = 0 THEN <<>>
    ELSE IF slashes = 2 THEN <<DoubleSlash>> ELSE <<Slash>>
PathOf(raw) ==
    Anchor(FindSlashEnd(raw, 1) - 1) \o WithoutDots(SplitSlash(raw, <<>>))

\* Path.is_absolute()
IsAbsolute(path) == path # <<>> /\ path[1] \in {Slash, DoubleSlash}

\* Path.parent
Parent(path) ==
    IF Len(path) <= 1 THEN path ELSE SubSeq(path, 1, Len(path) - 1)

\* Path.resolve() of an absolute path in a tree without symbolic links:
\* '..' steps to the parent, and the parent of the root is the root.
RECURSIVE Resolve(_)
Resolve(path) ==
    IF Len(path) <= 1 THEN path
    ELSE IF path[Len(path)] = DotDot
         THEN Parent(Resolve(SubSeq(path, 1, Len(path) - 1)))
         ELSE Append(Resolve(SubSeq(path, 1, Len(path) - 1)), path[Len(path)])

\* base / p
JoinPath(base, p) == IF IsAbsolute(p) THEN p ELSE base \o p

IsPrefix(p, q) == Len(p) <= Len(q) /\ SubSeq(q, 1, Len(p)) = p

\* Locations of the modelled machine.
Root == <<Slash, <<"repo">>>>
Home == <<Slash, <<"home">>, <<"u">>>>
\* The working directory of the process.
Cwd == <<Slash, <<"work">>>>
\* The user database: the only other account, and its home directory.
OtherUser == <<"bob">>
OtherHome == <<Slash, <<"home">>, <<"bob">>>>

\* Index of the first '/' of raw at or after position i, or Len(raw) + 1.
RECURSIVE FindSlash(_, _)
FindSlash(raw, i) ==
    IF i > Len(raw) \/ raw[i] = "/" THEN i ELSE FindSlash(raw, i + 1)

\* os.path.expanduser(raw), as a path: '~' and '~/...' expand to $HOME,
\* '~name...' to the home of that account, and a name the user database
\* does not know leaves the string as it is.
\* The path without its anchor.
Unanchored(path) == IF IsAbsolute(path) THEN Tail(path) ELSE path
\* raw starts with '~', and i is the index of its first '/' (Len(raw) + 1
\* when it has none): raw[2..i-1] is the account name, raw[i..] the rest.
ExpandTilde(raw, i) ==
    IF i = 2 THEN Home \o Unanchored(PathOf(SubSeq(raw, i, Len(raw))))
    ELSE IF SubSeq(raw, 2, i - 1) = OtherUser
         THEN OtherHome \o Unanchored(PathOf(SubSeq(raw, i, Len(raw))))
         ELSE PathOf(raw)
ExpandUser(raw) ==
    IF raw = <<>> \/ raw[1] # "~" THEN PathOf(raw)
    ELSE ExpandTilde(raw, FindSlash(raw, 2))

\* _resolve_import from `p = Path(raw)` on: an absolute path as it is, any
\* other joined to base_dir and resolved.
ResolvePath(base_dir, p) ==
    IF IsAbsolute(p) THEN p ELSE Resolve(JoinPath(base_dir, p))
\* _resolve_import after `raw = raw.strip()`
ResolveStripped(base_dir, raw) ==
    IF raw # <<>> /\ raw[1] = "~" THEN ExpandUser(raw)
    ELSE ResolvePath(base_dir, PathOf(raw))
\* _resolve_import
ResolveImport(base_dir, raw) == ResolveStripped(base_dir, Strip(raw))

(***************************************************************************)
(* The filesystem as the audit sees it: files is the function from the     *)
(* absolute paths of the existing plain files to their text, dirs the set  *)
(* of existing directories.                                                *)
(***************************************************************************)
\* The directories that hold a file, with their ancestors.
DirsOfFiles(files) ==
    UNION {{SubSeq(f, 1, n) : n \in 1..(Len(f) - 1)} : f \in DOMAIN files}

\* The result of a failed lookup.
NoPath == <<>>

\* os.stat(path): the lookup walks the components from cur, an existing
\* directory; every component but the last must name a directory, and '..'
\* steps to the parent of the directory reached.
RECURSIVE StatWalk(_, _, _, _)
StatWalk(files, dirs, cur, rest) ==
    IF rest = <<>> THEN cur
    ELSE IF Head(rest) = DotDot
         THEN StatWalk(files, dirs, Parent(cur), Tail(rest))
    ELSE IF Tail(rest) = <<>>
         THEN (IF Append(cur, Head(rest)) \in DOMAIN files \cup dirs
               THEN Append(cur, Head(rest)) ELSE NoPath)
    ELSE IF Append(cur, Head(rest)) \in dirs
         THEN StatWalk(files, dirs, Append(cur, Head(rest)), Tail(rest))
         ELSE NoPath

Stat(files, dirs, path) ==
    IF IsAbsolute(path) THEN StatWalk(files, dirs, <<Slash>>, Tail(path))
    ELSE StatWalk(files, dirs, Cwd, path)

\* Path.exists()
PathExists(files, dirs, path) == Stat(files, dirs, path) # NoPath

\* Path.is_file()
IsFile(files, dirs, path) == Stat(files, dirs, path) \in DOMAIN files

\* Path.is_dir()
IsDir(files, dirs, path) == Stat(files, dirs, path) \in dirs

\* _safe_read_text: the text of a plain file, "" when reading fails (the
\* path is a directory or does not exist).  Texts of the model are far
\* shorter than max_bytes.
TextAt(files, at) == IF at \in DOMAIN files THEN files[at] ELSE <<>>
SafeReadText(files, dirs, path) == TextAt(files, Stat(files, dirs, path))

\* path.relative_to(root), or the path itself when it is not below root.
RelativeTo(path, root) ==
    IF IsPrefix(root, path) THEN SubSeq(path, Len(root) + 1, Len(path)) ELSE path

(***************************************************************************)
(* Memory documents.                                                       *)
(***************************************************************************)
VeryLargeLines == 500
LargeLines == 300
MinimalWords == 50

\* An issue or recommendation message: the fixed wording, the number and
\* the names formatted into it.
Msg(text, n, names) == [text |-> text, n |-> n, names |-> names]

MsgMissingImports == "Missing @imports: names"

\* "local" in scope
ScopeMentionsLocal(scope) == scope \in {"local", "local-nested"}

\* _discover_memory_files: the four standard locations, then the nested
\* documents root.rglob finds (given in the order of the directory walk)
\* that are not among the candidates yet.
StandardMemoryLocations(root) ==
    << [path |-> root \o <<<<"CLAUDE", ".", "md">>>>, scope |-> "project"],
       [path |-> root \o <<<<".", "claude">>, <<"CLAUDE", ".", "md">>>>, scope |-> "project"],
       [path |-> root \o <<<<"CLAUDE", ".", "local", ".", "md">>>>, scope |-> "local"],
       [path |-> root \o <<<<".", "claude">>, <<"CLAUDE", ".", "local", ".", "md">>>>, scope |-> "local"] >>

PathsOf(candidates) == {candidates[k].path : k \in 1..Len(candidates)}

RECURSIVE AppendNew(_, _, _)
AppendNew(candidates, found, scope) ==
    IF found = <<>> THEN candidates
    ELSE AppendNew(IF Head(found) \in PathsOf(candidates) THEN candidates
                   ELSE Append(candidates, [path |-> Head(found), scope |-> scope]),
                   Tail(found), scope)

\* Variant: the nested documents pass through a set of strings, whose
\* iteration order changes from one process to the next.
DiscoverMemoryFiles_HashOrder(root, globMd, globLocalMd) ==
    LET nested == AppendNew(<<>>, globMd, "project-nested")
        seen == IF clock % 2 = 0 THEN nested
                ELSE [k \in 1..Len(nested) |-> nested[Len(nested) + 1 - k]]
    IN  AppendNew(AppendNew(StandardMemoryLocations(root),
                            [k \in 1..Len(seen) |-> seen[k].path], "project-nested"),
                  globLocalMd, "local-nested")
\* _discover_memory_files
DiscoverMemoryFiles(root, globMd, globLocalMd) ==
    AppendNew(AppendNew(StandardMemoryLocations(root), globMd, "project-nested"),
              globLocalMd, "local-nested")

\* The validation loop of _analyze_memory_file: the references whose
\* resolved path does not exist, in order.
MissingImports(files, dirs, base_dir, imports) ==
    Pick(imports,
         {k \in 1..Len(imports) :
            ~PathExists(files, dirs, ResolveImport(base_dir, imports[k]))})

\* lines = text.count("\n") + (1 if text else 0)
LineCount(text) == CountNewlines(text) + (IF text # <<>> THEN 1 ELSE 0)

\* The sections the lower-cased text mentions by none of their keywords.
MissingSections(lower) ==
    (IF ~Contains(lower, "build") /\ ~Contains(lower, "test")
        /\ ~Contains(lower, "lint")
     THEN << <<"commands (build/test/lint)">> >> ELSE <<>>)
    \o (IF ~Contains(lower, "architecture") /\ ~Contains(lower, "structure")
        THEN << <<"architecture overview">> >> ELSE <<>>)

\* The issues of _analyze_memory_file, in the order it appends them.
MemoryIssues(scope, lines, missing, headings) ==
    (IF ScopeMentionsLocal(scope)
     THEN <<Msg("CLAUDE.local.md is deprecated; prefer @imports in CLAUDE.md",
                0, <<>>)>>
     ELSE <<>>)
    \o (IF lines > VeryLargeLines
        THEN <<Msg("Very large (n lines); consider splitting via @imports",
                   lines, <<>>)>>
        ELSE <<>>)
    \o (IF missing # <<>> THEN <<Msg(MsgMissingImports, 0, missing)>> ELSE <<>>)
    \o (IF ~headings
        THEN <<Msg("No markdown headings; structure may be hard for agents to parse",
                   0, <<>>)>>
        ELSE <<>>)

\* Variant: the recommendation to split starts at 300 lines.
MemoryRecommendations_From300(lines, headings, words, sections) ==
    (IF lines > VeryLargeLines
     THEN <<Msg("Keep top-level CLAUDE.md concise; extract details to imported files",
                0, <<>>)>>
     ELSE IF lines >= LargeLines
     THEN <<Msg("Consider splitting larger sections into @imported files",
                0, <<>>)>>
     ELSE <<>>)
    \o (IF ~headings
        THEN <<Msg("Add section headings for Commands, Architecture, Conventions, etc.",
                   0, <<>>)>>
        ELSE <<>>)
    \o (IF words < MinimalWords
        THEN <<Msg("Very minimal content; consider adding project conventions and commands",
                   0, <<>>)>>
        ELSE <<>>)
    \o (IF sections # <<>> THEN <<Msg("Consider adding: names", 0, sections)>> ELSE <<>>)
\* The recommendations of _analyze_memory_file, in the order it appends them.
MemoryRecommendations(lines, headings, words, sections) ==
    (IF lines > VeryLargeLines
     THEN <<Msg("Keep top-level CLAUDE.md concise; extract details to imported files",
                0, <<>>)>>
     ELSE IF lines > LargeLines
     THEN <<Msg("Consider splitting larger sections into @imported files",
                0, <<>>)>>
     ELSE <<>>)
    \o (IF ~headings
        THEN <<Msg("Add section headings for Commands, Architecture, Conventions, etc.",
                   0, <<>>)>>
        ELSE <<>>)
    \o (IF words < MinimalWords
        THEN <<Msg("Very minimal content; consider adding project conventions and commands",
                   0, <<>>)>>
        ELSE <<>>)
    \o (IF sections # <<>> THEN <<Msg("Consider adding: names", 0, sections)>> ELSE <<>>)

\* Variant: no early return for a path that is no existing file, so the
\* checks on headings and content run on the blank report.
AbsentMemoryReport_NoEarlyReturn(rel, scope) ==
    [path |-> rel, exists |-> FALSE, bytes |-> 0, lines |-> 0,
     word_count |-> 0, has_headings |-> FALSE, heading_count |-> 0,
     imports |-> <<>>, missing_imports |-> <<>>,
     last_git_commit_iso |-> None, scope |-> scope,
     issues |-> MemoryIssues(scope, 0, <<>>, FALSE),
     recommendations |-> MemoryRecommendations(0, FALSE, MinimalWords, <<>>)]
\* _analyze_memory_file, the report of a path that is no existing file.
AbsentMemoryReport(rel, scope) ==
    [path |-> rel, exists |-> FALSE, bytes |-> 0, lines |-> 0,
     word_count |-> 0, has_headings |-> FALSE, heading_count |-> 0,
     imports |-> <<>>, missing_imports |-> <<>>,
     last_git_commit_iso |-> None, scope |-> scope,
     issues |-> <<>>, recommendations |-> <<>>]

\* _analyze_memory_file once the text is read, its lines are counted and
\* its references are extracted and validated.
MemoryReport(rel, scope, text, lines, imports, missing, iso) ==
    [path |-> rel, exists |-> TRUE, bytes |-> ByteLen(text),
     lines |-> lines, word_count |-> WordCount(text),
     has_headings |-> HasHeadings(text),
     heading_count |-> CountHeadings(text),
     imports |-> imports, missing_imports |-> missing,
     last_git_commit_iso |-> iso,
     scope |-> scope,
     issues |-> MemoryIssues(scope, lines, missing, HasHeadings(text)),
     recommendations |->
        MemoryRecommendations(lines, HasHeadings(text), WordCount(text),
                              MissingSections(Lower(text)))]

\* _analyze_memory_file from the extraction of the references on.
AnalyzeMemoryImports(files, dirs, base_dir, rel, scope, text, imports, iso) ==
    MemoryReport(rel, scope, text, LineCount(text), imports,
                 MissingImports(files, dirs, base_dir, imports), iso)

\* _analyze_memory_file from the reading of the text on.
AnalyzeMemoryText(files, dirs, base_dir, rel, scope, text, iso) ==
    AnalyzeMemoryImports(files, dirs, base_dir, rel, scope, text,
                         ExtractImports(text), iso)

\* _analyze_memory_file.  hasTracked is `tracked is not None`, commitIso what `git log -1 --format=%cI` gives
\* for the document.
AnalyzeMemoryFile(files, dirs, path, scope, root, hasTracked, commitIso) ==
    IF ~(PathExists(files, dirs, path) /\ IsFile(files, dirs, path))
    THEN AbsentMemoryReport(RelativeTo(path, root), scope)
    ELSE AnalyzeMemoryText(files, dirs, Parent(path), RelativeTo(path, root),
                           scope, SafeReadText(files, dirs, path),
                           IF hasTracked THEN commitIso ELSE None)

\* [_analyze_memory_file(p, scope, root, tracked) for p, scope in memory_files]
AnalyzeMemoryFiles(files, dirs, found, root, hasTracked, commitIso) ==
    [k \in 1..Len(found) |->
        AnalyzeMemoryFile(files, dirs, found[k].path, found[k].scope,
                          root, hasTracked, commitIso)]

(***************************************************************************)
(* JSON.  A parsed value is a record tagged by t: "null", "bool", "num",   *)
(* "str", "list" or "obj" (keys in document order), and "fail" stands for  *)
(* json.loads raising.                                                     *)
(***************************************************************************)
JFail == [t |-> "fail"]
JNull == [t |-> "null"]
JNum(n) == [t |-> "num", n |-> n]
JStr(s) == [t |-> "str", s |-> s]
JList(items) == [t |-> "list", items |-> items]
JObj(keys, vals) == [t |-> "obj", keys |-> keys, vals |-> vals]
EmptyDict == JObj(<<>>, <<>>)
EmptyList == JList(<<>>)

BashStar == <<"Bash", "(", "*", ")">>
\* A restricted entry whose text ends in Bash(*).
SafeBashStar == <<"Safe", "Bash", "(", "*", ")">>
ReadTool == <<"Read">>

\* The JSON documents of the model, as texts.
Q == "\""
KeyText(k) == <<Q, k, Q>>
StrText(s) == <<Q>> \o s \o <<Q>>
TxtInvalid == <<"{", "invalid">>
TxtNull == <<"null">>
TxtList == <<"[", "]">>
TxtEmptyObj == <<"{", "}">>
TxtPermNull == <<"{">> \o KeyText("permissions") \o <<":", "null", "}">>
TxtMcpNull == <<"{">> \o KeyText("mcpServers") \o <<":", "null", "}">>
TxtAllow(tool) ==
    <<"{">> \o KeyText("permissions") \o <<":", "{">> \o KeyText("allow")
    \o <<":", "[">> \o StrText(tool) \o <<"]", "}", "}">>
RECURSIVE ServerItems(_)
ServerItems(names) ==
    IF names = <<>> THEN <<>>
    ELSE KeyText(Head(names)) \o <<":", "{", "}">>
         \o (IF Len(names) > 1 THEN <<",">> ELSE <<>>)
         \o ServerItems(Tail(names))
TxtServers(names) ==
    <<"{">> \o KeyText("mcpServers") \o <<":", "{">> \o ServerItems(names)
    \o <<"}", "}">>
\* Ten and eleven server names.
ElevenServers ==
    <<"s1", "s2", "s3", "s4", "s5", "s6", "s7", "s8", "s9", "s10", "s11">>
TenServers == SubSeq(ElevenServers, 1, 10)

TxtAllowNothing ==
    <<"{">> \o KeyText("permissions") \o <<":", "{">> \o KeyText("allow")
    \o <<":", "[", "]", "}", "}">>
ObjAllow(tool) ==
    JObj(<<"permissions">>, <<JObj(<<"allow">>, <<JList(<<JStr(tool)>>)>>)>>)
ObjServers(names) ==
    JObj(<<"mcpServers">>, <<JObj(names, [k \in 1..Len(names) |-> EmptyDict])>>)

\* json.loads on the documents of the model; any other text of the model's
\* vocabulary is not JSON.
JsonLoads(text) ==
    CASE text = TxtNull -> JNull
      [] text = TxtList -> EmptyList
      [] text = TxtEmptyObj -> EmptyDict
      [] text = TxtPermNull -> JObj(<<"permissions">>, <<JNull>>)
      [] text = TxtMcpNull -> JObj(<<"mcpServers">>, <<JNull>>)
      [] text = TxtAllow(BashStar) -> ObjAllow(BashStar)
      [] text = TxtAllow(SafeBashStar) -> ObjAllow(SafeBashStar)
      [] text = TxtAllow(ReadTool) -> ObjAllow(ReadTool)
      [] text = TxtAllowNothing ->
            JObj(<<"permissions">>, <<JObj(<<"allow">>, <<EmptyList>>)>>)
      [] text = TxtServers(<<"a">>) -> ObjServers(<<"a">>)
      [] text = TxtServers(<<"a", "b">>) -> ObjServers(<<"a", "b">>)
      [] text = TxtServers(TenServers) -> ObjServers(TenServers)
      [] text = TxtServers(ElevenServers) -> ObjServers(ElevenServers)
      [] OTHER -> JFail

\* _safe_read_json: the parsed value; None when reading or parsing fails,
\* and for the document `null`.
NoneIfFail(v) == IF v.t = "fail" THEN JNull ELSE v
SafeReadJson(files, dirs, path) ==
    NoneIfFail(JsonLoads(SafeReadText(files, dirs, path)))

\* Python on parsed values.
IsNone(v) == v.t = "null"
IsDict(v) == v.t = "obj"
\* d.get(key, default)
DictGet(d, key, default) ==
    IF \E k \in 1..Len(d.keys) : d.keys[k] = key
    THEN d.vals[CHOOSE k \in 1..Len(d.keys) : d.keys[k] = key]
    ELSE default
\* bool(v)
Truthy(v) ==
    CASE v.t = "null" -> FALSE
      [] v.t = "bool" -> v.b
      [] v.t = "num" -> v.n # 0
      [] v.t = "str" -> v.s # <<>>
      [] v.t = "list" -> v.items # <<>>
      [] v.t = "obj" -> v.keys # <<>>
\* len(v) is defined
HasLen(v) == v.t \in {"str", "list", "obj"}
PyLen(v) ==
    CASE v.t = "str" -> ByteLen(v.s)
      [] v.t = "list" -> Len(v.items)
      [] v.t = "obj" -> Len(v.keys)

\* text ends with suffix
EndsWith(text, suffix) ==
    /\ Len(suffix) <= Len(text)
    /\ SubSeq(text, Len(text) - Len(suffix) + 1, Len(text)) = suffix
\* needle occurs in text
HasSubSeq(text, needle) ==
    \E i \in 1..(Len(text) - Len(needle) + 1) :
        SubSeq(text, i, i + Len(needle) - 1) = needle

\* `x in v` is defined
IsContainer(v) == v.t \in {"str", "list", "obj"}
\* "Bash(*)" in v
HasBashStar(v) ==
    CASE v.t = "str" -> HasSubSeq(v.s, BashStar)
      [] v.t = "list" ->
            \E k \in 1..Len(v.items) :
                v.items[k].t = "str" /\ v.items[k].s = BashStar
      [] v.t = "obj" -> FALSE   \* no document of the model has that key
\* "Bash(*)'" in str(v): a string of the list whose repr ends in Bash(*)'
ReprHasBashStarQuote(v) ==
    /\ v.t = "list"
    /\ \E k \in 1..Len(v.items) :
          v.items[k].t = "str" /\ EndsWith(v.items[k].s, BashStar)

(***************************************************************************)
(* Settings files and service-connector (MCP) configs.                     *)
(***************************************************************************)
MsgInvalidJson == "Invalid JSON format"
MsgOverlyPermissive == "Overly permissive Bash(*) in allowed tools - security risk"
MsgManyServers == "Many MCP servers (n); may impact context with lazy loading disabled"

ClaudeDir(base) == Append(base, <<".", "claude">>)
SettingsJson == <<"settings", ".", "json">>
SettingsLocalJson == <<"settings", ".", "local", ".", "json">>
McpJson == <<"mcp", ".", "json">>
DotMcpJson == <<".", "mcp", ".", "json">>
EtcSettings == <<Slash, <<"etc">>, <<"claude">>, SettingsJson>>
HomeManagedSettings ==
    Home \o <<<<".", "config">>, <<"claude">>, <<"managed", "-", "settings", ".", "json">>>>

\* _discover_settings_files
DiscoverSettingsFiles(files, dirs, root) ==
    << [path |-> Append(ClaudeDir(Home), SettingsJson), scope |-> "user"],
       [path |-> Append(ClaudeDir(root), SettingsJson), scope |-> "project"],
       [path |-> Append(ClaudeDir(root), SettingsLocalJson), scope |-> "local"] >>
    \o (IF PathExists(files, dirs, EtcSettings)
        THEN <<[path |-> EtcSettings, scope |-> "managed"]>> ELSE <<>>)
    \o (IF PathExists(files, dirs, HomeManagedSettings)
        THEN <<[path |-> HomeManagedSettings, scope |-> "managed"]>> ELSE <<>>)

\* The values _analyze_settings_file reads out of the parsed document.
SettingsPermissions(data) == DictGet(data, "permissions", EmptyDict)
SettingsAllow(data) == DictGet(SettingsPermissions(data), "allow", JNull)
SettingsServers(data) == DictGet(data, "mcpServers", EmptyDict)

\* _analyze_settings_file raises (AttributeError or TypeError) on the
\* parsed document: it, or its "permissions", has no .get; its "mcpServers"
\* has no len(); or the allow value admits no `in`.
SettingsDataRaises(data) ==
    /\ ~IsNone(data)
    /\ \/ ~IsDict(data)
       \/ ~IsDict(SettingsPermissions(data))
       \/ ~HasLen(SettingsServers(data))
       \/ /\ Truthy(SettingsAllow(data))
          /\ ~IsContainer(SettingsAllow(data))
SettingsRaises(files, dirs, path) ==
    /\ PathExists(files, dirs, path)
    /\ SettingsDataRaises(SafeReadJson(files, dirs, path))

\* The dict `info` as _analyze_settings_file initialises it.
BlankSettingsReport(path, exists, scope) ==
    [path |-> path, exists |-> exists, scope |-> scope, bytes |-> 0,
     has_allowed_tools |-> FALSE, has_deny_tools |-> FALSE,
     has_custom_instructions |-> FALSE, has_mcp_servers |-> FALSE,
     mcp_server_count |-> 0, issues |-> <<>>]

\* _analyze_settings_file on an existing file of the given size whose
\* parsed content is data.
SettingsReport(blank, size, data) ==
    IF IsNone(data)
    THEN [blank EXCEPT !.bytes = size,
                       !.issues = <<Msg(MsgInvalidJson, 0, <<>>)>>]
    ELSE [blank EXCEPT
            !.bytes = size,
            !.has_allowed_tools = Truthy(SettingsAllow(data)),
            !.has_deny_tools =
                Truthy(DictGet(SettingsPermissions(data), "deny", JNull)),
            !.has_custom_instructions =
                Truthy(DictGet(data, "customInstructions", JNull)),
            !.has_mcp_servers = Truthy(SettingsServers(data)),
            !.mcp_server_count = PyLen(SettingsServers(data)),
            !.issues =
                IF /\ Truthy(SettingsAllow(data))
                   /\ \/ HasBashStar(SettingsAllow(data))
                      \/ ReprHasBashStarQuote(SettingsAllow(data))
                THEN <<Msg(MsgOverlyPermissive, 0, <<>>)>> ELSE <<>>]

\* Variant: unparseable content is passed over without an issue.
AnalyzeSettingsFile_Silent(files, dirs, path, scope) ==
    [BlankSettingsReport(path, PathExists(files, dirs, path), scope)
        EXCEPT !.bytes = ByteLen(SafeReadText(files, dirs, path))]
\* _analyze_settings_file, when it returns.
AnalyzeSettingsFile(files, dirs, path, scope) ==
    IF ~PathExists(files, dirs, path)
    THEN BlankSettingsReport(path, FALSE, scope)
    ELSE SettingsReport(BlankSettingsReport(path, TRUE, scope),
                        ByteLen(SafeReadText(files, dirs, path)),
                        SafeReadJson(files, dirs, path))

\* [_analyze_settings_file(p, scope) for p, scope in settings_files]
AnalyzeSettingsFiles(files, dirs, found) ==
    [k \in 1..Len(found) |->
        AnalyzeSettingsFile(files, dirs, found[k].path, found[k].scope)]

\* _discover_mcp_configs
DiscoverMcpConfigs(root) ==
    << [path |-> Append(ClaudeDir(Home), McpJson), scope |-> "user"],
       [path |-> Append(root, DotMcpJson), scope |-> "project"],
       [path |-> Append(ClaudeDir(root), McpJson), scope |-> "project"] >>

\* _analyze_mcp_config raises on the parsed document: it has no .get, or
\* its "mcpServers" has no len() or no .keys().
McpDataRaises(data) ==
    /\ ~IsNone(data)
    /\ \/ ~IsDict(data)
       \/ ~IsDict(SettingsServers(data))
McpRaises(files, dirs, path) ==
    /\ PathExists(files, dirs, path)
    /\ McpDataRaises(SafeReadJson(files, dirs, path))

\* The dict `info` as _analyze_mcp_config initialises it.
BlankMcpReport(path, exists, scope) ==
    [path |-> path, exists |-> exists, scope |-> scope, server_count |-> 0,
     servers |-> <<>>, issues |-> <<>>]

\* Variant: ten servers already count as many.
McpServersReport_AtThreshold(blank, servers) ==
    [blank EXCEPT
        !.server_count = Len(servers.keys),
        !.servers = servers.keys,
        !.issues =
            IF Len(servers.keys) >= ManyServers
            THEN <<Msg(MsgManyServers, Len(servers.keys), <<>>)>>
            ELSE <<>>]
\* _analyze_mcp_config from `servers = data.get("mcpServers", {})` on.
McpServersReport(blank, servers) ==
    [blank EXCEPT
        !.server_count = Len(servers.keys),
        !.servers = servers.keys,
        !.issues =
            IF Len(servers.keys) > ManyServers
            THEN <<Msg(MsgManyServers, Len(servers.keys), <<>>)>>
            ELSE <<>>]

\* _analyze_mcp_config on an existing file whose parsed content is data.
McpReport(blank, data) ==
    IF IsNone(data)
    THEN [blank EXCEPT !.issues = <<Msg(MsgInvalidJson, 0, <<>>)>>]
    ELSE McpServersReport(blank, SettingsServers(data))

\* _analyze_mcp_config, when it returns.
AnalyzeMcpConfig(files, dirs, path, scope) ==
    IF ~PathExists(files, dirs, path)
    THEN BlankMcpReport(path, FALSE, scope)
    ELSE McpReport(BlankMcpReport(path, TRUE, scope),
                   SafeReadJson(files, dirs, path))

\* [_analyze_mcp_config(p, scope) for p, scope in mcp_configs]
AnalyzeMcpConfigs(files, dirs, found) ==
    [k \in 1..Len(found) |->
        AnalyzeMcpConfig(files, dirs, found[k].path, found[k].scope)]

(***************************************************************************)
(* Directory listings.  The operating system lists the entries of a        *)
(* directory in an order of its own: the model lists them by their rank in *)
(* NameOrder, or by the reverse when `reversed`.                           *)
(***************************************************************************)
ClaudeMd == <<"CLAUDE", ".", "md">>
ClaudeLocalMd == <<"CLAUDE", ".", "local", ".", "md">>
SkillMd == <<"SKILL", ".", "md">>
GitDir == <<".", "git">>
HousekeepingDirs ==
    {<<".", "git">>, <<"node_modules">>, <<"dist">>, <<"build">>,
     <<".", "venv">>, <<"__pycache__">>}

NameOrder ==
    << <<".", "claude">>, GitDir, DotMcpJson, ClaudeMd, ClaudeLocalMd,
       <<"node_modules">>, <<"pkg">>, <<"src">>, <<"skills">>, <<"agents">>,
       SettingsJson, SettingsLocalJson, McpJson, <<"s1">>, <<"s2">>,
       <<"a1", ".", "md">>, <<"notes", ".", "txt">>, SkillMd, <<"scripts">>,
       <<"run", ".", "sh">> >>

\* Position of name in order; Len(order) + 1 for a name it does not hold.
RankIn(order, name) ==
    IF \E k \in 1..Len(order) : order[k] = name
    THEN CHOOSE k \in 1..Len(order) : order[k] = name
    ELSE Len(order) + 1
NameRank(name) == RankIn(NameOrder, name)

\* The name of S listed first: of least rank, of greatest when reversed.
ListedFirst(S, reversed) ==
    CHOOSE x \in S : \A y \in S :
        IF reversed THEN NameRank(y) <= NameRank(x)
        ELSE NameRank(x) <= NameRank(y)

\* The names in S, ascending by rank (descending when reversed).  ListedFrom
\* lists S with its element first in front.
RECURSIVE InListingOrder(_, _)
RECURSIVE ListedFrom(_, _, _)
ListedFrom(S, first, reversed) ==
    <<first>> \o InListingOrder(S \ {first}, reversed)
InListingOrder(S, reversed) ==
    IF S = {} THEN <<>> ELSE ListedFrom(S, ListedFirst(S, reversed), reversed)

\* The names of the entries of directory d.
EntryNames(files, dirs, d) ==
    {p[Len(d) + 1] : p \in {q \in DOMAIN files \cup dirs :
                               IsPrefix(d, q) /\ Len(q) > Len(d)}}

\* Path.iterdir(): the entries of d, as paths, in listing order.
EntriesNamed(d, names) == [k \in 1..Len(names) |-> Append(d, names[k])]
IterDir(files, dirs, d, reversed) ==
    EntriesNamed(d, InListingOrder(EntryNames(files, dirs, d), reversed))

\* Concatenation of a sequence of sequences.
RECURSIVE Flatten(_)
Flatten(ss) == IF ss = <<>> THEN <<>> ELSE Head(ss) \o Flatten(Tail(ss))

\* The directories at and below d, parent before children, children in
\* listing order: the order in which Path.rglob visits them.
\* WalkEach walks the given directories one after the other.
OnlyDirs(dirs, entries) ==
    Pick(entries, {k \in 1..Len(entries) : entries[k] \in dirs})
RECURSIVE WalkDirs(_, _, _, _)
RECURSIVE WalkEach(_, _, _, _)
WalkEach(files, dirs, subdirs, reversed) ==
    Flatten([k \in 1..Len(subdirs) |->
               WalkDirs(files, dirs, subdirs[k], reversed)])
WalkDirs(files, dirs, d, reversed) ==
    <<d>> \o WalkEach(files, dirs,
                      OnlyDirs(dirs, IterDir(files, dirs, d, reversed)), reversed)

\* list(root.rglob(name)) for a literal name: the existing entries called
\* name, directory by directory.  Nothing when root is no directory.
\* Those of the visited directories that hold an entry called name.
Holding(files, dirs, visited, name) ==
    Pick(visited, {k \in 1..Len(visited) :
                     PathExists(files, dirs, Append(visited[k], name))})
\* The entry called name of each of the directories.
NamedIn(ds, name) == [k \in 1..Len(ds) |-> Append(ds[k], name)]
RGlobName(files, dirs, root, name, reversed) ==
    IF root \notin dirs THEN <<>>
    ELSE NamedIn(Holding(files, dirs, WalkDirs(files, dirs, root, reversed), name),
                 name)

(***************************************************************************)
(* Skill bundles and subagent definitions.                                 *)
(***************************************************************************)
MsgSkillNoDescription == "Missing description in SKILL.md frontmatter"
DescriptionKey == <<"description", ":">>

SkillsDir(base) == Append(ClaudeDir(base), <<"skills">>)
AgentsDir(base) == Append(ClaudeDir(base), <<"agents">>)

\* The skill directories of one skills directory, in listing order.
\* The paths, each with the scope.
Scoped(paths, scope) ==
    [k \in 1..Len(paths) |-> [path |-> paths[k], scope |-> scope]]
\* if d.is_dir() and (d / "SKILL.md").exists()
SkillDirsAmong(files, dirs, entries) ==
    Pick(entries, {k \in 1..Len(entries) :
                     /\ IsDir(files, dirs, entries[k])
                     /\ PathExists(files, dirs, Append(entries[k], SkillMd))})
SkillsIn(files, dirs, skills_dir, scope, reversed) ==
    IF ~PathExists(files, dirs, skills_dir) THEN <<>>
    ELSE Scoped(SkillDirsAmong(files, dirs,
                               IterDir(files, dirs, skills_dir, reversed)),
                scope)

\* _discover_skills
DiscoverSkills(files, dirs, root, reversed) ==
    SkillsIn(files, dirs, SkillsDir(Home), "user", reversed)
    \o SkillsIn(files, dirs, SkillsDir(root), "project", reversed)

\* The issues of _analyze_skill for an existing SKILL.md.
SkillIssues(described, lines) ==
    (IF ~described THEN <<Msg(MsgSkillNoDescription, 0, <<>>)>> ELSE <<>>)
    \o (IF lines > VeryLargeLines
        THEN <<Msg("SKILL.md very large (n lines); consider using references/", lines, <<>>)>> ELSE <<>>)

\* _analyze_skill, given whether SKILL.md exists and the text read from it.
SkillReport(files, dirs, skill_dir, scope, root, found, text) ==
    [path |-> RelativeTo(skill_dir, root),
     name |-> skill_dir[Len(skill_dir)],
     scope |-> scope,
     has_description |-> found /\ HasSubSeq(text, DescriptionKey),
     has_scripts |-> PathExists(files, dirs, Append(skill_dir, <<"scripts">>)),
     has_references |-> PathExists(files, dirs, Append(skill_dir, <<"references">>)),
     has_assets |-> PathExists(files, dirs, Append(skill_dir, <<"assets">>)),
     skill_md_lines |-> IF found THEN CountNewlines(text) + 1 ELSE 0,
     issues |->
        IF ~found THEN <<>>
        ELSE SkillIssues(HasSubSeq(text, DescriptionKey), CountNewlines(text) + 1)]

\* _analyze_skill
AnalyzeSkill(files, dirs, skill_dir, scope, root) ==
    SkillReport(files, dirs, skill_dir, scope, root,
                PathExists(files, dirs, Append(skill_dir, SkillMd)),
                SafeReadText(files, dirs, Append(skill_dir, SkillMd)))

\* [_analyze_skill(p, scope, root) for p, scope in skill_files]
AnalyzeSkills(files, dirs, found, root) ==
    [k \in 1..Len(found) |->
        AnalyzeSkill(files, dirs, found[k].path, found[k].scope, root)]

\* name matches the pattern *.md
IsMdName(name) == Len(name) >= 2 /\ EndsWith(name, <<".", "md">>)

\* Path.stem: the name without its last suffix.
Stem(name) == IF IsMdName(name) /\ Len(name) > 2
              THEN SubSeq(name, 1, Len(name) - 2) ELSE name

\* The *.md entries of one agents directory, in listing order.
MdAmong(entries) ==
    Pick(entries, {k \in 1..Len(entries) : IsMdName(entries[k][Len(entries[k])])})
AgentsIn(files, dirs, agents_dir, scope, reversed) ==
    IF ~PathExists(files, dirs, agents_dir) THEN <<>>
    ELSE Scoped(MdAmong(IterDir(files, dirs, agents_dir, reversed)), scope)

\* _discover_subagents
DiscoverSubagents(files, dirs, root, reversed) ==
    AgentsIn(files, dirs, AgentsDir(Home), "user", reversed)
    \o AgentsIn(files, dirs, AgentsDir(root), "project", reversed)

\* _analyze_subagent, given whether the file exists and the text read from it.
SubagentReport(agent_path, scope, root, found, text) ==
    [path |-> RelativeTo(agent_path, root),
     name |-> Stem(agent_path[Len(agent_path)]),
     scope |-> scope,
     has_description |->
        found /\ (HasSubSeq(Lower(text), DescriptionKey) \/ Strip(text) # <<>>),
     agent_md_lines |-> IF found THEN CountNewlines(text) + 1 ELSE 0,
     issues |-> <<>>]

\* _analyze_subagent
AnalyzeSubagent(files, dirs, agent_path, scope, root) ==
    SubagentReport(agent_path, scope, root,
                   PathExists(files, dirs, agent_path),
                   SafeReadText(files, dirs, agent_path))

\* [_analyze_subagent(p, scope, root) for p, scope in subagent_files]
AnalyzeSubagents(files, dirs, found, root) ==
    [k \in 1..Len(found) |->
        AnalyzeSubagent(files, dirs, found[k].path, found[k].scope, root)]

(***************************************************************************)
(* Repo scale and directory hotspots.                                      *)
(***************************************************************************)
SourceWalk == "filesystem walk (excludes node_modules/.git/dist/build/.venv/__pycache__)"

\* The tracked-file list of `git ls-files`, run-length encoded: groups of n
\* consecutive paths with the same first component (Dot for a path without
\* a separator).  listed is FALSE for None.
TrackedNone == [listed |-> FALSE, groups |-> <<>>]
TrackedList(groups) == [listed |-> TRUE, groups |-> groups]

RECURSIVE SumCounts(_)
SumCounts(groups) ==
    IF groups = <<>> THEN 0 ELSE Head(groups).n + SumCounts(Tail(groups))

\* len(tracked)
TrackedLen(t) == SumCounts(t.groups)

\* Variant: the threshold itself already counts as large.
IsLargeRepo_AtThreshold(count) == count >= LargeRepoThreshold
\* large_repo = file_count > 3000
IsLargeRepo(count) == count > LargeRepoThreshold

\* any(part in exclude_dirs for part in p.parts)
HasHousekeepingPart(path) ==
    \E k \in 1..Len(path) : path[k] \in HousekeepingDirs

\* The further plain files of the tree: bulk.n files directly in bulk.dir.
BulkUnder(bulk, d) == IF IsPrefix(d, bulk.dir) THEN bulk.n ELSE 0

\* Variant: the walk counts every plain file below root.
WalkFileCount_CountsAll(files, dirs, bulk, root) ==
    IF root \notin dirs THEN 0
    ELSE Cardinality({f \in DOMAIN files : IsPrefix(root, f) /\ Len(f) > Len(root)})
         + BulkUnder(bulk, root)
\* The filesystem walk of audit(): the plain files below root with no
\* housekeeping directory among their path components.
WalkFileCount(files, dirs, bulk, root) ==
    IF root \notin dirs THEN 0
    ELSE Cardinality({f \in DOMAIN files :
                        /\ IsPrefix(root, f) /\ Len(f) > Len(root)
                        /\ ~HasHousekeepingPart(f)})
         + (IF HasHousekeepingPart(bulk.dir) THEN 0 ELSE BulkUnder(bulk, root))

\* sum(1 for _ in p.rglob("*") if _.is_file())
FilesBelow(files, bulk, d) ==
    Cardinality({f \in DOMAIN files : IsPrefix(d, f) /\ Len(f) > Len(d)})
    + BulkUnder(bulk, d)

\* Positions of a sequence in the order a stable ascending sort by keys
\* (pairs, compared lexicographically) puts them.
KeyLess(x, y) == x[1] < y[1] \/ (x[1] = y[1] /\ x[2] < y[2])
RECURSIVE StableOrder(_, _)
StableOrder(keys, remaining) ==
    IF remaining = {} THEN <<>>
    ELSE LET i == CHOOSE i \in remaining : \A j \in remaining :
                    \/ KeyLess(keys[i], keys[j])
                    \/ (keys[i] = keys[j] /\ i <= j)
         IN  <<i>> \o StableOrder(keys, remaining \ {i})

\* sorted(s, key=...) with keys[k] the key of s[k].
SortedByKeys(s, keys) ==
    LET order == StableOrder(keys, 1..Len(s))
    IN  [k \in 1..Len(s) |-> s[order[k]]]

\* The dict top_dirs built from the tracked list: first occurrences in
\* order, counts summed.
RECURSIVE TallyGroups(_, _)
TallyGroups(groups, tally) ==
    IF groups = <<>> THEN tally
    ELSE LET g == Head(groups)
             hit == {k \in 1..Len(tally) : tally[k].dir = g.top}
         IN  TallyGroups(Tail(groups),
                IF g.n = 0 THEN tally
                ELSE IF hit = {} THEN Append(tally, [dir |-> g.top, files |-> g.n])
                ELSE [k \in 1..Len(tally) |->
                        IF k \in hit
                        THEN [tally[k] EXCEPT !.files = @ + g.n] ELSE tally[k]])

\* s[:n]
Take(s, n) == SubSeq(s, 1, IF Len(s) < n THEN Len(s) ELSE n)

\* root.iterdir() raises in _get_directory_stats: root is no directory.
DirectoryStatsRaises(dirs, root, t) == ~t.listed /\ root \notin dirs

\* _get_directory_stats, when it returns.
\* if p.is_dir() and p.name not in exclude_dirs
CountedDirsAmong(dirs, entries) ==
    Pick(entries, {k \in 1..Len(entries) :
                     /\ entries[k] \in dirs
                     /\ entries[k][Len(entries[k])] \notin HousekeepingDirs})
\* dir_counts.append((p.name, count)) for each of the directories
DirCounts(files, bulk, ds) ==
    [k \in 1..Len(ds) |->
        [dir |-> ds[k][Len(ds[k])], files |-> FilesBelow(files, bulk, ds[k])]]
\* Variant: the sorted list is not cut.
Hotspots_Uncut(top_dirs) ==
    SortedByKeys(top_dirs,
                 [k \in 1..Len(top_dirs) |-> <<0 - top_dirs[k].files, 0>>])
\* sorted(..., key=lambda kv: kv[1], reverse=True)[:20]
Hotspots(top_dirs) ==
    Take(SortedByKeys(top_dirs,
                      [k \in 1..Len(top_dirs) |-> <<0 - top_dirs[k].files, 0>>]),
         MaxHotspots)
GetDirectoryStats(files, dirs, bulk, root, t, reversed) ==
    Hotspots(IF t.listed THEN TallyGroups(t.groups, <<>>)
             ELSE DirCounts(files, bulk,
                            CountedDirsAmong(dirs, IterDir(files, dirs, root, reversed))))

(***************************************************************************)
(* Aggregation: audit() from "Compile recommendations" on.                 *)
(***************************************************************************)
MsgNoClaudeMd == "No CLAUDE.md found; create one to provide project context to Claude Code"
NoFile == <<>>

\* "missing" in issue.lower()
MentionsMissing(msg) ==
    \/ msg.text \in {MsgMissingImports, MsgSkillNoDescription}
    \/ \E k \in 1..Len(msg.names) : Contains(Lower(msg.names[k]), "missing")

Entry(priority, category, has_file, file, message) ==
    [priority |-> priority, category |-> category, has_file |-> has_file,
     file |-> file, message |-> message]

\* The order of Python strings on the priorities and categories in use.
PriorityRank(p) == CASE p = "P0" -> 0 [] p = "P1" -> 1 [] p = "P2" -> 2
CategoryRank(c) ==
    CASE c = "mcp" -> 1 [] c = "memory" -> 2 [] c = "scale" -> 3
      [] c = "settings" -> 4 [] c = "skills" -> 5

SortKey(e) == <<PriorityRank(e.priority), CategoryRank(e.category)>>

\* Variant: the sort key is the priority alone.
SortEntries_ByPriorityOnly(entries) ==
    SortedByKeys(entries, [k \in 1..Len(entries) |-> <<PriorityRank(entries[k].priority), 0>>])
\* sorted(entries, key=lambda x: (x["priority"], x["category"]))
SortEntries(entries) ==
    SortedByKeys(entries, [k \in 1..Len(entries) |-> SortKey(entries[k])])

\* Variant: every issue of a memory document is filed as P2.
MemoryIssueEntries_AllP2(r) ==
    [k \in 1..Len(r.issues) |-> Entry("P2", "memory", TRUE, r.path, r.issues[k])]
\* The entries one report contributes for its issues (or recommendations).
MemoryIssueEntries(r) ==
    [k \in 1..Len(r.issues) |->
        Entry(IF MentionsMissing(r.issues[k]) THEN "P1" ELSE "P2",
              "memory", TRUE, r.path, r.issues[k])]
MemoryRecEntries(r) ==
    [k \in 1..Len(r.recommendations) |->
        Entry("P2", "memory", TRUE, r.path, r.recommendations[k])]
\* Variant: every entry is filed under the category "memory".
IssueEntries_AllMemory(r, priority, category) ==
    [k \in 1..Len(r.issues) |-> Entry(priority, "memory", TRUE, r.path, r.issues[k])]
IssueEntries(r, priority, category) ==
    [k \in 1..Len(r.issues) |-> Entry(priority, category, TRUE, r.path, r.issues[k])]

\* Variant: the reports are listed whether their file exists or not.
Existing_All(reports) == reports
\* Variant: only the documents of project scope count as an existing
\* CLAUDE.md.
Existing_ProjectOnly(reports) ==
    Pick(reports, {k \in 1..Len(reports) :
                     reports[k].exists /\ reports[k].scope = "project"})
\* [r for r in reports if r.exists]
Existing(reports) == Pick(reports, {k \in 1..Len(reports) : reports[k].exists})
\* [r for r in reports if r.scope != "user"]
NotUserScope(reports) ==
    Pick(reports, {k \in 1..Len(reports) : reports[k].scope # "user"})

\* all_issues, in the order audit() appends them.
CompileIssues(memory, settings, mcp, skills) ==
    (IF Existing(memory) = <<>>
     THEN <<Entry("P0", "memory", FALSE, NoFile, Msg(MsgNoClaudeMd, 0, <<>>))>>
     ELSE <<>>)
    \o Flatten([k \in 1..Len(memory) |-> MemoryIssueEntries(memory[k])])
    \o Flatten([k \in 1..Len(settings) |-> IssueEntries(settings[k], "P1", "settings")])
    \o Flatten([k \in 1..Len(mcp) |-> IssueEntries(mcp[k], "P2", "mcp")])
    \o Flatten([k \in 1..Len(skills) |-> IssueEntries(skills[k], "P2", "skills")])

\* all_recommendations, in the order audit() appends them.
CompileRecommendations(memory, large, count) ==
    Flatten([k \in 1..Len(memory) |-> MemoryRecEntries(memory[k])])
    \o (IF large
        THEN <<Entry("P1", "scale", FALSE, NoFile,
                     Msg("Repo has n files (>3000 threshold). Consider a context engine or retrieval layer for reliable agent context.",
                         count, <<>>))>>
        ELSE <<>>)

RECURSIVE SumServers(_)
SumServers(reports) ==
    IF reports = <<>> THEN 0
    ELSE Head(reports).server_count + SumServers(Tail(reports))

\* The dict audit() returns.
BuildReport(now, root, count, source, large, is_repo, hotspots, memory, settings, mcp, skills, subagents, issues, recs) ==
    [meta |-> [tool |-> "optimizing-claude-code.audit_repo", generated_at |-> now, root |-> root],
     repo_scale |->
        [file_count |-> count, file_count_source |-> source,
         large_repo_threshold |-> LargeRepoThreshold, is_large_repo |-> large,
         is_git_repo |-> is_repo, top_level_dirs_by_file_count |-> hotspots],
     claude_memory |->
        [discovered_files |-> Existing(memory),
         missing_standard_locations |->
            Pick(memory, {k \in 1..Len(memory) :
                            ~memory[k].exists
                            /\ memory[k].scope \in {"project", "local"}})],
     claude_settings |-> [discovered_files |-> Existing(settings)],
     mcp_configuration |->
        [discovered_files |-> Existing(mcp),
         total_servers |-> SumServers(Existing(mcp))],
     skills |-> [discovered |-> skills, total_count |-> Len(skills)],
     subagents |-> [discovered |-> subagents, total_count |-> Len(subagents)],
     issues |-> SortEntries(issues),
     recommendations |-> SortEntries(recs)]

(***************************************************************************)
(* The environment: the files that can exist, and the texts they can hold. *)
(***************************************************************************)
NotesTxt == <<"notes", ".", "txt">>
\* Memory documents: plain prose; a heading over the expected keywords; a
\* heading and a reference to notes.txt beside the document.
DocPlain == <<"a", " ", "b">>
DocGood == <<"#", " ", "Build", "\n", "architecture">>
DocImport == <<"#", " ", "test", "\n", "@", "notes", ".", "txt">>
\* Documents of 300, 301, 500 and 501 lines, the last without a heading (its
\* '#' is followed by a letter), and one of 600 lines: a line of prose, three
\* headings and blank lines.
Doc300 == <<"#", " ", "a", "\n*299">>
Doc301 == <<"#", " ", "a", "\n*300">>
Doc500 == <<"#", " ", "a", "\n*499">>
Doc501 == <<"#", "a", "\n*500">>
Doc600 ==
    <<"a", "\n", "#", " ", "a", "\n", "#", "#", " ", "a", "\n", "#", "\t", "a",
      "\n*596">>
\* An empty file.
EmptyText == <<>>
\* SKILL.md with and without a description in its header.
SkillGood == <<"-", "-", "-", "\n", "description", ":", " ", "a", "\n", "-", "-", "-", "\n">>
SkillBare == <<"a", "\n">>
\* SKILL.md of 500 lines with a description in its header, and of 501
\* lines with an empty header and 'description:' in the body only.
Skill500 ==
    <<"-", "-", "-", "\n", "description", ":", " ", "a", "\n", "-", "-", "-",
      "\n*497">>
Skill501 ==
    <<"-", "-", "-", "\n", "-", "-", "-", "\n", "description", ":", " ", "a",
      "\n*498">>
AgentText == <<"Description", ":", " ", "a">>

MemoryPaths ==
    {Append(Root, ClaudeMd), Append(Root, ClaudeLocalMd),
     Append(ClaudeDir(Root), ClaudeMd),
     Root \o <<<<"pkg">>, ClaudeMd>>, Root \o <<<<"node_modules">>, ClaudeMd>>}
UserFiles ==
    {Append(ClaudeDir(Home), SettingsJson), Append(ClaudeDir(Home), McpJson),
     SkillsDir(Home) \o <<<<"s1">>, SkillMd>>, Append(AgentsDir(Home), <<"a1", ".", "md">>)}
FileUniverse ==
    MemoryPaths \cup UserFiles
    \cup {Append(Root, NotesTxt), EtcSettings, HomeManagedSettings,
          Append(ClaudeDir(Root), SettingsJson), Append(Root, DotMcpJson),
          Append(ClaudeDir(Root), McpJson),
          SkillsDir(Root) \o <<<<"s1">>, SkillMd>>,
          Append(AgentsDir(Root), <<"a1", ".", "md">>)}

\* The texts a file of the universe can hold.
TextsFor(path) ==
    LET name == path[Len(path)]
    IN  CASE path = Append(Root, ClaudeMd) ->
                {DocPlain, DocGood, DocImport, Doc300, Doc301, Doc500, Doc501,
                 Doc600}
          [] path = Append(ClaudeDir(Root), ClaudeMd) -> {DocPlain, EmptyText}
          [] path = Root \o <<<<"pkg">>, ClaudeMd>> -> {DocPlain, DocImport}
          [] path = Append(Root, ClaudeLocalMd) -> {DocImport}
          [] name = ClaudeMd -> {DocPlain}
          [] name = NotesTxt -> {DocPlain}
          [] path = Append(ClaudeDir(Root), SettingsJson) ->
                {TxtInvalid, TxtList, TxtEmptyObj, TxtPermNull, TxtMcpNull,
                 TxtAllow(BashStar), TxtAllow(SafeBashStar),
                 TxtAllow(ReadTool), TxtAllowNothing}
          [] path \in {EtcSettings, HomeManagedSettings} -> {TxtAllow(BashStar)}
          [] name = SettingsJson -> {TxtInvalid, TxtAllow(BashStar)}
          [] path = Append(Root, DotMcpJson) ->
                {TxtInvalid, TxtList, TxtEmptyObj, TxtMcpNull,
                 TxtServers(<<"a", "b">>), TxtServers(TenServers),
                 TxtServers(ElevenServers)}
          [] name = McpJson -> {TxtServers(<<"a">>)}
          [] path = SkillsDir(Root) \o <<<<"s1">>, SkillMd>> ->
                {SkillGood, SkillBare, EmptyText, Skill500, Skill501}
          [] name = SkillMd -> {SkillBare}
          [] path = Append(AgentsDir(Root), <<"a1", ".", "md">>) ->
                {AgentText, EmptyText}
          [] OTHER -> {AgentText}

NoFiles == [f \in {} |-> <<>>]

\* The filesystems with at most n files, each built by adding its files in
\* one fixed order of the universe.
RECURSIVE InSomeOrder(_)
InSomeOrder(S) ==
    IF S = {} THEN <<>>
    ELSE LET x == CHOOSE y \in S : TRUE IN <<x>> \o InSomeOrder(S \ {x})
FileOrder == InSomeOrder(FileUniverse)
RECURSIVE FilesystemsFrom(_, _)
FilesystemsFrom(i, n) ==
    IF n = 0 \/ i > Len(FileOrder) THEN {NoFiles}
    ELSE FilesystemsFrom(i + 1, n)
         \cup {f @@ (FileOrder[i] :> t) :
                  f \in FilesystemsFrom(i + 1, n - 1), t \in TextsFor(FileOrder[i])}
Filesystems(n) == FilesystemsFrom(1, n)

\* The version-control side: whether <root>/.git exists, how the tool ends
\* ("ok", "fail" for a non-zero exit, "absent" when it is not installed,
\* "hang" when it never returns), the tracked list it prints and the commit
\* time it reports (Hang when 'git log' never returns).
Hang == "hang"
CommitIso == "2024-05-01T12:00:00+00:00"
Group(top, n) == [top |-> top, n |-> n]
NoGit == [dir |-> FALSE, tool |-> "ok", groups |-> <<>>, log |-> None]
\* A listing with 21 top-level entries, in the order of the index (sorted
\* by path): a file at the top, one path in each of the directories d1 ..
\* d19, two paths under src/, and another file at the top.
ManyTops ==
    <<Group(Dot, 1)>>
    \o [k \in 1..19 |->
          Group(<<"d", IF k = 1 THEN 1 ELSE IF k <= 11 THEN k + 8 ELSE k - 10>>, 1)]
    \o <<Group(<<"src">>, 2), Group(Dot, 1)>>
GitChoices ==
    {NoGit,
     [dir |-> TRUE, tool |-> "ok", groups |-> ManyTops, log |-> None],
     [dir |-> FALSE, tool |-> "absent", groups |-> <<>>, log |-> None],
     [dir |-> TRUE, tool |-> "absent", groups |-> <<>>, log |-> None],
     [dir |-> TRUE, tool |-> "fail", groups |-> <<>>, log |-> None],
     [dir |-> TRUE, tool |-> Hang, groups |-> <<>>, log |-> None],
     [dir |-> TRUE, tool |-> "ok", groups |-> <<Group(Dot, 1)>>, log |-> Hang],
     [dir |-> TRUE, tool |-> "ok", groups |-> <<>>, log |-> None],
     [dir |-> TRUE, tool |-> "ok", log |-> CommitIso,
      groups |-> <<Group(<<"src">>, LargeRepoThreshold)>>],
     [dir |-> TRUE, tool |-> "ok", log |-> CommitIso,
      groups |-> <<Group(Dot, 1), Group(<<"src">>, LargeRepoThreshold)>>]}
OtherFileCounts == {0, LargeRepoThreshold - 1, LargeRepoThreshold}

\* In how many ways the invocation and its environment differ from a plain
\* invocation on an empty project.
FlagDeviations ==
    (IF include_user_scope THEN 1 ELSE 0)
    + (IF other_files # 0 THEN 1 ELSE 0)
    + (IF git # NoGit THEN 1 ELSE 0)
    + (IF scan_reversed THEN 1 ELSE 0)
Deviations == Cardinality(DOMAIN fs) + FlagDeviations

\* The filesystem as the audit sees it.
Files == IF root_kind = "file" THEN fs @@ (Root :> DocPlain) ELSE fs
Bulk == [dir |-> Append(Root, <<"src">>), n |-> other_files]
Dirs ==
    {<<Slash>>, <<Slash, <<"home">>>>, <<Slash, <<"etc">>>>, Home, OtherHome, Cwd}
    \cup (IF root_kind = "dir" THEN {Root} ELSE {})
    \cup DirsOfFiles(fs)
    \cup (IF git.dir THEN {Append(Root, GitDir)} ELSE {})
    \cup (IF other_files > 0 THEN {Bulk.dir} ELSE {})

(***************************************************************************)
(* The process: main(), and audit() step by step.                          *)
(***************************************************************************)
EmptyReport ==
    BuildReport(0, Root, 0, SourceWalk, FALSE, FALSE, <<>>,
                <<>>, <<>>, <<>>, <<>>, <<>>, <<>>, <<>>)

\* A process that has not started: no local is set, nothing is printed.
Fresh(t, fc, fcs, lr, mem, st, mcp, sk, sa, ds, ai, ar, rep, out, err, st2) ==
    /\ t = TrackedNone /\ fc = 0 /\ fcs = SourceWalk /\ lr = FALSE
    /\ mem = <<>> /\ st = <<>> /\ mcp = <<>> /\ sk = <<>> /\ sa = <<>>
    /\ ds = <<>> /\ ai = <<>> /\ ar = <<>> /\ rep = EmptyReport
    /\ out = <<>> /\ err = <<>> /\ st2 = <<>>

Init ==
    /\ root_kind \in {"missing", "file", "dir"}
    /\ include_user_scope \in BOOLEAN
    /\ other_files \in OtherFileCounts
    /\ git \in GitChoices
    /\ scan_reversed \in BOOLEAN
    /\ FlagDeviations <= MaxDeviations
    /\ root_kind # "dir" => (other_files = 0 /\ git = NoGit /\ ~scan_reversed)
    /\ fs \in Filesystems(MaxDeviations - FlagDeviations)
    /\ Deviations <= MaxDeviations
    /\ root_kind # "dir" => \A f \in DOMAIN fs : ~IsPrefix(Root, f)
    /\ clock = 1
    /\ pc = "main"
    /\ run = 1
    /\ prev_stdout = <<>>
    /\ Fresh(tracked, file_count, file_count_source, large_repo,
             memory_reports, settings_reports, mcp_reports, skill_reports,
             subagent_reports, dir_stats, all_issues, all_recommendations,
             report, stdout, stderr, status)
    /\ fn_in = <<>> /\ fn_out = <<>>


\* An exception leaves audit() and main(): the interpreter prints the
\* traceback and exits with status 1; nothing is printed to stdout.
Crashes ==
    /\ pc' = "exit"
    /\ stderr' = <<"Traceback (most recent call last)">>
    /\ status' = <<1>>

\* main(): the root.exists() check.
CheckRoot ==
    /\ pc = "main"
    /\ IF ~PathExists(Files, Dirs, Root)
       THEN /\ pc' = "exit"
            /\ stderr' = <<"Error: root does not exist">>
            /\ status' = <<1>>
       ELSE /\ pc' = "scale"
            /\ UNCHANGED <<stderr, status>>
    /\ UNCHANGED <<env_vars, fn_vars, run, clock, tracked, file_count,
                 file_count_source, large_repo, memory_reports,
                 settings_reports, mcp_reports, skill_reports,
                 subagent_reports, dir_stats, all_issues,
                 all_recommendations, report, stdout, prev_stdout>>

\* _is_git_repo(root)
IsGitRepo == PathExists(Files, Dirs, Append(Root, GitDir))

\* tracked = _git_tracked_files(root) if _is_git_repo(root) else None
GitTrackedFiles ==
    IF IsGitRepo /\ git.tool = "ok" THEN TrackedList(git.groups) ELSE TrackedNone

\* _run: subprocess.run is given no timeout, so it returns only when the
\* tool does.
GitLsFilesReturns == ~(IsGitRepo /\ git.tool = Hang)

\* audit(): repo scale.  subprocess.run raises when git is not installed.
RepoScale ==
    /\ pc = "scale"
    /\ GitLsFilesReturns
    /\ IF IsGitRepo /\ git.tool = "absent"
       THEN /\ Crashes
            /\ UNCHANGED <<tracked, file_count, file_count_source, large_repo>>
       ELSE /\ pc' = "memory"
            /\ UNCHANGED <<stderr, status>>
            /\ tracked' = GitTrackedFiles
            /\ file_count' = IF tracked'.listed THEN TrackedLen(tracked')
                           ELSE WalkFileCount(Files, Dirs, Bulk, Root)
            /\ file_count_source' = IF tracked'.listed THEN "git ls-files" ELSE SourceWalk
            /\ large_repo' = IsLargeRepo(file_count')
    /\ UNCHANGED <<env_vars, fn_vars, run, clock, memory_reports,
                 settings_reports, mcp_reports, skill_reports,
                 subagent_reports, dir_stats, all_issues,
                 all_recommendations, report, stdout, prev_stdout>>

\* memory_files = _discover_memory_files(root)
MemoryCandidates ==
    DiscoverMemoryFiles(Root,
        RGlobName(Files, Dirs, Root, ClaudeMd, scan_reversed),
        RGlobName(Files, Dirs, Root, ClaudeLocalMd, scan_reversed))

\* _analyze_memory_file asks for the last commit of each document that
\* exists when there is a tracked list; the call returns only when the
\* tool does.
GitLogReturns ==
    ~(/\ tracked.listed
      /\ git.log = Hang
      /\ \E k \in 1..Len(MemoryCandidates) :
            IsFile(Files, Dirs, MemoryCandidates[k].path))

\* audit(): memory files.
MemoryFiles ==
    /\ pc = "memory"
    /\ GitLogReturns
    /\ pc' = "settings"
    /\ memory_reports' =
          AnalyzeMemoryFiles(Files, Dirs, MemoryCandidates, Root,
                             tracked.listed, git.log)
    /\ UNCHANGED <<env_vars, fn_vars, run, clock, tracked, file_count,
                 file_count_source, large_repo, settings_reports,
                 mcp_reports, skill_reports, subagent_reports, dir_stats,
                 all_issues, all_recommendations, report, stdout, stderr,
                 status, prev_stdout>>

SettingsCandidates == DiscoverSettingsFiles(Files, Dirs, Root)
McpCandidates == DiscoverMcpConfigs(Root)
SkillCandidates == DiscoverSkills(Files, Dirs, Root, scan_reversed)
SubagentCandidates == DiscoverSubagents(Files, Dirs, Root, scan_reversed)

\* One of the analyzer calls of the category raises.
AnySettingsRaises(files, dirs, found) ==
    \E k \in 1..Len(found) : SettingsRaises(files, dirs, found[k].path)
AnyMcpRaises(files, dirs, found) ==
    \E k \in 1..Len(found) : McpRaises(files, dirs, found[k].path)

\* The reports of a category as audit() keeps them: all of them, or those
\* not of user scope.
Kept(reports) == IF include_user_scope THEN reports ELSE NotUserScope(reports)

\* audit(): settings.
Settings ==
    /\ pc = "settings"
    /\ IF AnySettingsRaises(Files, Dirs, SettingsCandidates)
       THEN /\ Crashes
            /\ UNCHANGED <<settings_reports>>
       ELSE /\ pc' = "mcp"
            /\ UNCHANGED <<stderr, status>>
            /\ settings_reports' =
                 Kept(AnalyzeSettingsFiles(Files, Dirs, SettingsCandidates))
    /\ UNCHANGED <<env_vars, fn_vars, run, clock, tracked, file_count,
                 file_count_source, large_repo, memory_reports, mcp_reports,
                 skill_reports, subagent_reports, dir_stats, all_issues,
                 all_recommendations, report, stdout, prev_stdout>>

\* audit(): MCP configs.
McpConfigs ==
    /\ pc = "mcp"
    /\ IF AnyMcpRaises(Files, Dirs, McpCandidates)
       THEN /\ Crashes
            /\ UNCHANGED <<mcp_reports>>
       ELSE /\ pc' = "skills"
            /\ UNCHANGED <<stderr, status>>
            /\ mcp_reports' = Kept(AnalyzeMcpConfigs(Files, Dirs, McpCandidates))
    /\ UNCHANGED <<env_vars, fn_vars, run, clock, tracked, file_count,
                 file_count_source, large_repo, memory_reports,
                 settings_reports, skill_reports, subagent_reports,
                 dir_stats, all_issues, all_recommendations, report, stdout,
                 prev_stdout>>

\* audit(): skills.
Skills ==
    /\ pc = "skills"
    /\ pc' = "subagents"
    /\ skill_reports' = Kept(AnalyzeSkills(Files, Dirs, SkillCandidates, Root))
    /\ UNCHANGED <<env_vars, fn_vars, run, clock, tracked, file_count,
                 file_count_source, large_repo, memory_reports,
                 settings_reports, mcp_reports, subagent_reports, dir_stats,
                 all_issues, all_recommendations, report, stdout, stderr,
                 status, prev_stdout>>

\* audit(): subagents.
Subagents ==
    /\ pc = "subagents"
    /\ pc' = "dirstats"
    /\ subagent_reports' =
          Kept(AnalyzeSubagents(Files, Dirs, SubagentCandidates, Root))
    /\ UNCHANGED <<env_vars, fn_vars, run, clock, tracked, file_count,
                 file_count_source, large_repo, memory_reports,
                 settings_reports, mcp_reports, skill_reports, dir_stats,
                 all_issues, all_recommendations, report, stdout, stderr,
                 status, prev_stdout>>

\* audit(): directory stats.
DirectoryStats ==
    /\ pc = "dirstats"
    /\ IF DirectoryStatsRaises(Dirs, Root, tracked)
       THEN /\ Crashes
            /\ UNCHANGED <<dir_stats>>
       ELSE /\ pc' = "compile"
            /\ UNCHANGED <<stderr, status>>
            /\ dir_stats' = GetDirectoryStats(Files, Dirs, Bulk, Root, tracked, scan_reversed)
    /\ UNCHANGED <<env_vars, fn_vars, run, clock, tracked, file_count,
                 file_count_source, large_repo, memory_reports,
                 settings_reports, mcp_reports, skill_reports,
                 subagent_reports, all_issues, all_recommendations, report,
                 stdout, prev_stdout>>

\* audit(): the issues and recommendations are compiled and the report is built;
\* datetime.now() reads the clock, which then moves on.
Compile ==
    /\ pc = "compile"
    /\ pc' = "print"
    /\ all_issues' = CompileIssues(memory_reports, settings_reports, mcp_reports,
                                 skill_reports)
    /\ all_recommendations' =
          CompileRecommendations(memory_reports, large_repo, file_count)
    /\ report' = BuildReport(clock, Root, file_count, file_count_source, large_repo,
                           IsGitRepo, dir_stats, memory_reports,
                           settings_reports, mcp_reports, skill_reports,
                           subagent_reports, all_issues', all_recommendations')
    /\ clock' = clock + 1
    /\ UNCHANGED <<env_vars, fn_vars, run, tracked, file_count,
                 file_count_source, large_repo, memory_reports,
                 settings_reports, mcp_reports, skill_reports,
                 subagent_reports, dir_stats, stdout, stderr, status,
                 prev_stdout>>

\* Variant: the report is also saved under the scan root.
PrintReport_SavesCopy ==
    /\ pc = "print"
    /\ pc' = "exit"
    /\ stdout' = <<report>>
    /\ status' = <<0>>
    /\ fs' = (Append(Root, <<"audit", ".", "json">>) :> TxtEmptyObj) @@ fs
    /\ UNCHANGED <<root_kind, include_user_scope, other_files, git,
                 scan_reversed, fn_vars, run, clock, tracked, file_count,
                 file_count_source, large_repo, memory_reports,
                 settings_reports, mcp_reports, skill_reports,
                 subagent_reports, dir_stats, all_issues,
                 all_recommendations, report, stderr, prev_stdout>>
\* main(): the report is printed and main returns 0.
PrintReport ==
    /\ pc = "print"
    /\ pc' = "exit"
    /\ stdout' = <<report>>
    /\ status' = <<0>>
    /\ UNCHANGED <<env_vars, fn_vars, run, clock, tracked, file_count,
                 file_count_source, large_repo, memory_reports,
                 settings_reports, mcp_reports, skill_reports,
                 subagent_reports, dir_stats, all_issues,
                 all_recommendations, report, stderr, prev_stdout>>

\* The audit is invoked once more, as a new process, on the same machine.
Rerun ==
    /\ pc = "exit"
    /\ run = 1
    /\ run' = 2
    /\ prev_stdout' = stdout
    /\ pc' = "main"
    /\ Fresh(tracked', file_count', file_count_source', large_repo',
             memory_reports', settings_reports', mcp_reports', skill_reports',
             subagent_reports', dir_stats', all_issues', all_recommendations',
             report', stdout', stderr', status')
    /\ UNCHANGED <<env_vars, fn_vars, clock>>

Next ==
    \/ CheckRoot
    \/ RepoScale
    \/ MemoryFiles
    \/ Settings
    \/ McpConfigs
    \/ Skills
    \/ Subagents
    \/ DirectoryStats
    \/ Compile
    \/ PrintReport
    \/ Rerun

Spec == Init /\ [][Next]_vars

(***************************************************************************)
(* The reference extractor and the resolver on their own: one call of      *)
(* _extract_imports on a text, one resolution and existence check of a     *)
(* reference found in a memory document.                                   *)
(***************************************************************************)
\* No audit is running: a plain invocation on an empty project, not started.
Idle ==
    /\ root_kind = "dir" /\ include_user_scope = FALSE
    /\ other_files = 0 /\ git = NoGit /\ scan_reversed = FALSE
    /\ clock = 1 /\ run = 1 /\ prev_stdout = <<>>
    /\ Fresh(tracked, file_count, file_count_source, large_repo,
             memory_reports, settings_reports, mcp_reports, skill_reports,
             subagent_reports, dir_stats, all_issues, all_recommendations,
             report, stdout, stderr, status)

\* The sequences over S of length at most n.
RECURSIVE SeqsUpTo(_, _)
SeqsUpTo(S, n) ==
    IF n = 0 THEN {<<>>}
    ELSE LET shorter == SeqsUpTo(S, n - 1)
         IN  shorter \cup {Append(q, x) : q \in shorter, x \in S}

TextAlphabet == {"@", Backtick, "a", " ", "~", "/", "!"}

ExtractInit ==
    /\ Idle
    /\ fs = NoFiles
    /\ pc = "extract"
    /\ fn_in \in SeqsUpTo(TextAlphabet, MaxTextLen)
    /\ fn_out = <<>>

\* One call: fn_out = _extract_imports(fn_in)
ExtractCall ==
    /\ pc = "extract"
    /\ pc' = "done"
    /\ fn_out' = ExtractImports(fn_in)
    /\ UNCHANGED <<env_vars, audit_vars, fn_in, run, stdout, stderr, status,
                   prev_stdout, clock>>

ExtractNext == ExtractCall

SpecExtract == ExtractInit /\ [][ExtractNext]_vars

TokenAlphabet == {"~", "/", ".", "a", "bob"}

\* The tokens the extractor can hand to the resolver.
Tokens(n) ==
    {t \in SeqsUpTo(TokenAlphabet, n) :
        t # <<>> /\ ExtractImports(<<"@">> \o t) = <<t>>}

\* Where the memory document lies.
BaseDirs == {Root, Append(Root, <<"pkg">>), Home}

\* The files a reference may point at.
ResolveTargets ==
    {<<Slash, <<"a">>>>, Append(Root, <<"a">>), Root \o <<<<"pkg">>, <<"a">>>>,
     Append(Home, <<"a">>), Append(OtherHome, <<"a">>),
     Append(Cwd, <<"~", "a">>)}

ResolveInit ==
    /\ Idle
    /\ fs \in {NoFiles} \cup {(f :> DocPlain) : f \in ResolveTargets}
    /\ pc = "resolve"
    /\ fn_in \in [base_dir : BaseDirs, token : Tokens(MaxTokenLen)]
    /\ fn_out = <<>>

\* The validation of one reference of a document in base_dir:
\* imp_path = _resolve_import(base_dir, imp, root), and imp is appended to
\* missing_imports if not imp_path.exists().
ResolveCall ==
    /\ pc = "resolve"
    /\ pc' = "done"
    /\ fn_out' = [path |-> ResolveImport(fn_in.base_dir, fn_in.token),
                  missing_imports |->
                      MissingImports(Files, Dirs, fn_in.base_dir, <<fn_in.token>>)]
    /\ UNCHANGED <<env_vars, audit_vars, fn_in, run, stdout, stderr, status,
                   prev_stdout, clock>>

ResolveNext == ResolveCall

SpecResolve == ResolveInit /\ [][ResolveNext]_vars

(***************************************************************************)
(* install_skill.py: sanitize_name on its own.  A name is a sequence of    *)
(* runs, each one character repeated n times; two adjacent runs of a name  *)
(* never repeat the same character.                                        *)
(***************************************************************************)
Nul == "NUL"
Backslash == "\\"
CharRun(c, n) == [c |-> c, n |-> n]
\* len(name)
RECURSIVE NameLen(_)
NameLen(name) ==
    IF name = <<>> THEN 0 ELSE Head(name).n + NameLen(Tail(name))
\* The same string with adjacent runs of one character joined.
RECURSIVE JoinRuns(_)
JoinRuns(name) ==
    IF Len(name) < 2 THEN name
    ELSE IF name[1].c = name[2].c
         THEN JoinRuns(<<CharRun(name[1].c, name[1].n + name[2].n)>>
                       \o SubSeq(name, 3, Len(name)))
         ELSE <<name[1]>> \o JoinRuns(Tail(name))
\* re.sub('[...]', '', name)
RemoveChars(name, chars) ==
    JoinRuns(SelectSeq(name, LAMBDA r : r.c \notin chars))
\* name.lstrip(chars), name.rstrip(chars), name.strip(chars)
RECURSIVE LStripChars(_, _)
LStripChars(name, chars) ==
    IF name # <<>> /\ Head(name).c \in chars
    THEN LStripChars(Tail(name), chars) ELSE name
RECURSIVE RStripChars(_, _)
RStripChars(name, chars) ==
    IF name # <<>> /\ name[Len(name)].c \in chars
    THEN RStripChars(SubSeq(name, 1, Len(name) - 1), chars) ELSE name
StripChars(name, chars) == RStripChars(LStripChars(name, chars), chars)
\* name[:n]
RECURSIVE FirstChars(_, _)
FirstChars(name, n) ==
    IF name = <<>> \/ n = 0 THEN <<>>
    ELSE IF Head(name).n >= n THEN <<CharRun(Head(name).c, n)>>
    ELSE <<Head(name)>> \o FirstChars(Tail(name), n - Head(name).n)

MaxNameLen == 255
UnnamedSkill ==
    <<CharRun("u", 1), CharRun("n", 2), CharRun("a", 1), CharRun("m", 1),
      CharRun("e", 1), CharRun("d", 1), CharRun("-", 1), CharRun("s", 1),
      CharRun("k", 1), CharRun("i", 1), CharRun("l", 2)>>

\* sanitize_name from `if not sanitized` on.
DefaultAndLimit(sanitized) ==
    IF sanitized = <<>> THEN UnnamedSkill
    ELSE IF NameLen(sanitized) > MaxNameLen THEN FirstChars(sanitized, MaxNameLen)
    ELSE sanitized
\* sanitize_name
SanitizeName(name) ==
    DefaultAndLimit(
        LStripChars(StripChars(RemoveChars(name, {"/", Backslash, ":", Nul}),
                               {".", " "}),
                    {"."}))

\* The parts of the path that a name denotes: the stretches between its
\* separators, empty ones and '.' left out.
RECURSIVE NameParts(_, _)
NameParts(name, part) ==
    IF name = <<>> THEN (IF part \in {<<>>, <<CharRun(".", 1)>>} THEN <<>> ELSE <<part>>)
    ELSE IF Head(name).c = "/"
         THEN (IF part \in {<<>>, <<CharRun(".", 1)>>} THEN <<>> ELSE <<part>>)
              \o NameParts(Tail(name), <<>>)
         ELSE NameParts(Tail(name), Append(part, Head(name)))
\* install_skill: target_path = target_base / skill_name, as parts; a name
\* that starts with a separator replaces the base.
TargetPath(target_base, skill_name) ==
    IF skill_name # <<>> /\ skill_name[1].c = "/"
    THEN <<"/">> \o NameParts(skill_name, <<>>)
    ELSE target_base \o NameParts(skill_name, <<>>)
\* The skills directory of an agent, as parts.
SkillsBase == <<"/", "repo", ".claude", "skills">>

NameChars == {"a", ".", " ", "/", Backslash, ":", Nul}
RunLengths == {1, 254}
\* The names of at most n runs.
Names(n) ==
    {name \in SeqsUpTo({CharRun(c, k) : c \in NameChars, k \in RunLengths}, n) :
        JoinRuns(name) = name}

SanitizeInit ==
    /\ Idle
    /\ fs = NoFiles
    /\ pc = "sanitize"
    /\ fn_in \in Names(MaxNameRuns)
    /\ fn_out = <<>>

\* install_skill from `skill_name = sanitize_name(skill_name)` to
\* `target_path = target_base / skill_name`.
SanitizeCall ==
    /\ pc = "sanitize"
    /\ pc' = "done"
    /\ fn_out' = [skill_name |-> SanitizeName(fn_in),
                  target_path |-> TargetPath(SkillsBase, SanitizeName(fn_in))]
    /\ UNCHANGED <<env_vars, audit_vars, fn_in, run, stdout, stderr, status,
                   prev_stdout, clock>>

SanitizeNext == SanitizeCall

SpecSanitize == SanitizeInit /\ [][SanitizeNext]_vars

(***************************************************************************)
(* move_skill.py: one call of move_skill.  The skill directories live in   *)
(* fs; the process runs in the directory fn_in.cwd, and shutil.move ends   *)
(* as the machine lets it: done, failed with nothing done, or failed after *)
(* copying some of the files.                                              *)
(***************************************************************************)
\* files restricted to the paths that satisfy keep.
KeepPaths(files, keep(_)) == [p \in {q \in DOMAIN files : keep(q)} |-> files[p]]
\* The files below (or at) path.
TreeAt(files, path) == KeepPaths(files, LAMBDA q : IsPrefix(path, q))
\* shutil.rmtree(path) on a directory
RmTree(files, path) == KeepPaths(files, LAMBDA q : ~IsPrefix(path, q))
\* The files of tree, which lie below src, at the same places below dst.
Replanted(tree, src, dst) ==
    [p \in {dst \o SubSeq(q, Len(src) + 1, Len(q)) : q \in DOMAIN tree} |->
        tree[src \o SubSeq(p, Len(dst) + 1, Len(p))]]
\* shutil.move(src, dst) when it succeeds
MoveTree(files, src, dst) ==
    Replanted(TreeAt(files, src), src, dst) @@ RmTree(files, src)
\* The trees a copy of src can leave behind when it fails part-way.
PartialCopies(files, src) ==
    {KeepPaths(files, LAMBDA q : q \in S) :
        S \in (SUBSET DOMAIN TreeAt(files, src)) \ {{}, DOMAIN TreeAt(files, src)}}

\* The directories of the machine, and Path.exists() on it.
DirsOn(files) ==
    {<<Slash>>, <<Slash, <<"home">>>>, Home, Root, Cwd} \cup DirsOfFiles(files)
ExistsOn(files, path) == PathExists(files, DirsOn(files), path)

\* get_user_skills_dir, get_project_skills_dir
GetUserSkillsDir == SkillsDir(Home)
GetProjectSkillsDir(cwd) == SkillsDir(cwd)
ScopeSkillsDir(scope, cwd) ==
    IF scope = "user" THEN GetUserSkillsDir ELSE GetProjectSkillsDir(cwd)

\* find_skill: skill_path.exists() and (skill_path / "SKILL.md").exists()
IsSkillAt(files, skill_path) ==
    /\ ExistsOn(files, skill_path)
    /\ ExistsOn(files, Append(skill_path, SkillMd))
FindSkill(files, cwd, name) ==
    IF IsSkillAt(files, Append(GetUserSkillsDir, name))
    THEN [path |-> Append(GetUserSkillsDir, name), scope |-> "user"]
    ELSE IF IsSkillAt(files, Append(GetProjectSkillsDir(cwd), name))
    THEN [path |-> Append(GetProjectSkillsDir(cwd), name), scope |-> "project"]
    ELSE [path |-> NoPath, scope |-> None]

\* What a call returns; Raised when it ends in an exception instead.
True == "True"
False == "False"
Raised == "raised"
MoveResult(files, returned, printed) ==
    [files |-> files, returned |-> returned, printed |-> printed]

\* move_skill from `shutil.move` on: files is the tree after the target was
\* cleared, part what a failing shutil.move has copied of the skill.
TryMove(files, skill_path, target_path, outcome, part, printed) ==
    IF ~ExistsOn(files, skill_path)
    THEN MoveResult(files, False, Append(printed, "Error moving skill"))
    ELSE IF outcome = "ok"
    THEN MoveResult(MoveTree(files, skill_path, target_path), True,
                    Append(printed, "Moved skill"))
    ELSE MoveResult(Replanted(part, skill_path, target_path) @@ files, False,
                    Append(printed, "Error moving skill"))

\* move_skill from `if target_path.exists()` on.
MoveTo(files, skill_path, target_path, force, outcome, part) ==
    IF ~ExistsOn(files, target_path)
    THEN TryMove(files, skill_path, target_path, outcome, part, <<>>)
    ELSE IF ~force
    THEN MoveResult(files, False, <<"Error: already exists", "Use --force to overwrite.">>)
    ELSE IF target_path \in DOMAIN files
    THEN MoveResult(files, Raised, <<"Overwriting existing skill">>)
    ELSE TryMove(RmTree(files, target_path), skill_path, target_path, outcome,
                 part, <<"Overwriting existing skill">>)

\* move_skill(name, to_scope, force) run in cwd
MoveSkill(files, cwd, name, to_scope, force, outcome, part) ==
    IF FindSkill(files, cwd, name).path = NoPath
    THEN MoveResult(files, False, <<"Error: not found">>)
    ELSE IF FindSkill(files, cwd, name).scope = to_scope
    THEN MoveResult(files, False, <<"already in scope">>)
    ELSE MoveTo(files, FindSkill(files, cwd, name).path,
                Append(ScopeSkillsDir(to_scope, cwd), name), force, outcome, part)

\* What a failing shutil.move can have copied of the skill: nothing, or
\* some but not all of its files.
MoveOutcomes == {"ok", "fail", "partial"}
PartsFor(files, skill_path, outcome) ==
    IF outcome = "partial" THEN PartialCopies(files, skill_path) ELSE {NoFiles}

\* The skill directories that can exist before the call.
SkillNames == {<<"s1">>, <<"s2">>}
ExtraFiles == <<NotesTxt, <<"run", ".", "sh">>>>
SkillFileNames == {SkillMd} \cup {ExtraFiles[k] : k \in 1..MaxExtraFiles}
SkillTrees(skill_path, skill_md, other) ==
    {[p \in {Append(skill_path, n) : n \in S} |->
         IF p = Append(skill_path, SkillMd) THEN skill_md ELSE other] :
       S \in SUBSET SkillFileNames}
SkillStores ==
    {u @@ p :
       u \in SkillTrees(Append(SkillsDir(Home), <<"s1">>), SkillGood, DocPlain),
       p \in SkillTrees(Append(SkillsDir(Root), <<"s1">>), SkillBare, AgentText)
              \cup {Append(SkillsDir(Root), <<"s1">>) :> AgentText}}

MoveInit ==
    /\ Idle
    /\ fs \in SkillStores
    /\ pc = "move"
    /\ fn_in \in [name : SkillNames, to_scope : {"user", "project"},
                  force : BOOLEAN, cwd : {Root, Home}]
    /\ fn_out = <<>>

\* One call of move_skill; fn_out keeps what it returned and the tree it
\* started on.
MoveSkillCall ==
    /\ pc = "move"
    /\ pc' = "done"
    /\ \E outcome \in MoveOutcomes :
          \E part \in PartsFor(fs, FindSkill(fs, fn_in.cwd, fn_in.name).path, outcome) :
             /\ fs' = MoveSkill(fs, fn_in.cwd, fn_in.name, fn_in.to_scope,
                                fn_in.force, outcome, part).files
             /\ stdout' = MoveSkill(fs, fn_in.cwd, fn_in.name, fn_in.to_scope,
                                    fn_in.force, outcome, part).printed
             /\ fn_out' = [returned |->
                              MoveSkill(fs, fn_in.cwd, fn_in.name, fn_in.to_scope,
                                        fn_in.force, outcome, part).returned,
                           before |-> fs]
    /\ UNCHANGED <<root_kind, include_user_scope, other_files, git,
                   scan_reversed, audit_vars, fn_in, run, stderr, status,
                   prev_stdout, clock>>

MoveNext == MoveSkillCall

SpecMoveSkill == MoveInit /\ [][MoveNext]_vars

(***************************************************************************)
(* create_subagent.py, move_subagent.py, delete_subagent.py: a sequence of *)
(* calls in the working directory fn_in.cwd.  The subagent files live in   *)
(* fs; a directory exists when it holds a file, so mkdir changes nothing   *)
(* that the model tells apart.  fn_in is the call made last, fn_out what   *)
(* it returned or raised and the tree it started on; clock counts calls.   *)
(***************************************************************************)
\* <agents_dir> / f"{name}.md"
AgentFile(agents_dir, name) == Append(agents_dir, name \o <<".", "md">>)
ScopeAgentsDir(scope, cwd) ==
    IF scope = "user" THEN AgentsDir(Home) ELSE AgentsDir(cwd)

NotFound == [scope |-> None, path |-> NoPath]
\* delete_subagent.py: find_subagent(name, scope)
FindSubagent_UserFirst(files, cwd, name, scope) ==
    IF /\ scope \in {None, "user"}
       /\ ExistsOn(files, AgentFile(AgentsDir(Home), name))
    THEN [scope |-> "user", path |-> AgentFile(AgentsDir(Home), name)]
    ELSE IF /\ scope \in {None, "project"}
            /\ ExistsOn(files, AgentFile(AgentsDir(cwd), name))
    THEN [scope |-> "project", path |-> AgentFile(AgentsDir(cwd), name)]
    ELSE NotFound
FindSubagent(files, cwd, name, scope) ==
    IF /\ scope \in {None, "project"}
       /\ ExistsOn(files, AgentFile(AgentsDir(cwd), name))
    THEN [scope |-> "project", path |-> AgentFile(AgentsDir(cwd), name)]
    ELSE IF /\ scope \in {None, "user"}
            /\ ExistsOn(files, AgentFile(AgentsDir(Home), name))
    THEN [scope |-> "user", path |-> AgentFile(AgentsDir(Home), name)]
    ELSE NotFound
\* move_subagent.py: find_subagent(name)
FindSubagentToMove(files, cwd, name) ==
    IF ExistsOn(files, AgentFile(AgentsDir(cwd), name))
    THEN [scope |-> "project", path |-> AgentFile(AgentsDir(cwd), name)]
    ELSE IF ExistsOn(files, AgentFile(AgentsDir(Home), name))
    THEN [scope |-> "user", path |-> AgentFile(AgentsDir(Home), name)]
    ELSE NotFound

\* What a call leaves: the tree, the value returned and the exception
\* raised (None when it returns).
CallResult(files, returned, raised) ==
    [files |-> files, returned |-> returned, raised |-> raised]

\* name.replace("-", "").replace("_", "").isalnum()
IsAlnumName(name) ==
    /\ SelectSeq(name, LAMBDA x : x \notin {"-", "_"}) # <<>>
    /\ \A k \in 1..Len(name) : name[k] \in {"-", "_"} \/ IsWord(name[k])

\* "\n".join(lines)
RECURSIVE JoinLines(_)
JoinLines(lines) ==
    IF lines = <<>> THEN <<>>
    ELSE IF Len(lines) = 1 THEN lines[1]
    ELSE lines[1] \o <<"\n">> \o JoinLines(Tail(lines))
Dashes == <<"-", "-", "-">>
KeyLine(key, value) == <<key, ":", " ">> \o value
\* The line of an optional key; the empty value stands for None as well.
OptionalLine(key, value) ==
    IF value = <<>> THEN <<>> ELSE <<KeyLine(key, value)>>
\* create_subagent: the content written
SubagentContent(name, description, prompt, tools, model, permission_mode, disallowed_tools) ==
    JoinLines(<<Dashes, KeyLine("name", name), KeyLine("description", description)>>
              \o OptionalLine("tools", tools)
              \o OptionalLine("disallowedTools", disallowed_tools)
              \o <<KeyLine("model", model)>>
              \o OptionalLine("permissionMode", permission_mode)
              \o <<Dashes>>)
    \o <<"\n", "\n">> \o Strip(prompt) \o <<"\n">>

\* create_subagent(name, description, prompt, scope, tools, model,
\* permission_mode, disallowed_tools, overwrite) run in cwd
CreateSubagent(files, cwd, a) ==
    IF ~IsAlnumName(a.name)
    THEN CallResult(files, None, "ValueError")
    ELSE IF ExistsOn(files, AgentFile(ScopeAgentsDir(a.scope, cwd), a.name)) /\ ~a.overwrite
    THEN CallResult(files, None, "FileExistsError")
    ELSE CallResult(
            (AgentFile(ScopeAgentsDir(a.scope, cwd), a.name) :>
                SubagentContent(a.name, a.description, a.prompt, a.tools,
                                a.model, a.permission_mode, a.disallowed_tools))
            @@ files,
            AgentFile(ScopeAgentsDir(a.scope, cwd), a.name), None)

\* shutil.move of one file onto a path that holds no directory
MoveFile(files, src, dst) ==
    (dst :> files[src]) @@ KeepPaths(files, LAMBDA q : q # src)

\* move_subagent(name, to_scope, overwrite) run in cwd; shutil.move ends as
\* the machine lets it ("ok", or "fail" with OSError and nothing moved)
MoveSubagent(files, cwd, name, to_scope, overwrite, outcome) ==
    IF FindSubagentToMove(files, cwd, name).path = NoPath
    THEN CallResult(files, None, "FileNotFoundError")
    ELSE IF FindSubagentToMove(files, cwd, name).scope = to_scope
    THEN CallResult(files, None, "ValueError")
    ELSE IF ExistsOn(files, AgentFile(ScopeAgentsDir(to_scope, cwd), name)) /\ ~overwrite
    THEN CallResult(files, None, "FileExistsError")
    ELSE IF outcome # "ok"
    THEN CallResult(files, None, "OSError")
    ELSE CallResult(MoveFile(files, FindSubagentToMove(files, cwd, name).path,
                             AgentFile(ScopeAgentsDir(to_scope, cwd), name)),
                    <<FindSubagentToMove(files, cwd, name).path,
                      AgentFile(ScopeAgentsDir(to_scope, cwd), name)>>,
                    None)

\* delete_subagent(name, scope, force) run in cwd
DeleteSubagent(files, cwd, name, scope) ==
    IF FindSubagent(files, cwd, name, scope).path = NoPath
    THEN CallResult(files, None, "FileNotFoundError")
    ELSE CallResult(KeepPaths(files, LAMBDA q : q # FindSubagent(files, cwd, name, scope).path),
                    FindSubagent(files, cwd, name, scope).path, None)

\* The names given to the calls: two that create_subagent accepts, and
\* three that it rejects.
GoodAgentNames == {<<"a1">>, <<"b", "_", "2">>}
SubagentNames == GoodAgentNames \cup {<<>>, <<"-">>, <<"x", ".", "y">>}
UserAgentText == AgentText
ProjectAgentText == <<"Description", ":", " ", "b">>
\* The subagent files that can exist before the first call.
AgentStores ==
    {u @@ p :
       u \in {NoFiles, AgentFile(AgentsDir(Home), <<"a1">>) :> UserAgentText},
       p \in {NoFiles, AgentFile(AgentsDir(Root), <<"a1">>) :> ProjectAgentText}}
CreateArgs ==
    [name : SubagentNames, scope : {"user", "project"}, overwrite : BOOLEAN,
     description : {<<"d">>}, prompt : {<<" ", "p", "\n">>},
     tools : {<<>>, <<"Read">>}, model : {<<"sonnet">>},
     permission_mode : {<<>>}, disallowed_tools : {<<>>}]

SubagentsInit ==
    /\ Idle
    /\ fs \in AgentStores
    /\ pc = "subagent"
    /\ fn_in \in [op : {"start"}, cwd : {Root, Home}]
    /\ fn_out = <<>>

\* The bookkeeping of one call that leaves result.
Called(call, result) ==
    /\ pc = "subagent"
    /\ clock <= MaxCalls
    /\ clock' = clock + 1
    /\ fn_in' = call
    /\ fs' = result.files
    /\ fn_out' = [returned |-> result.returned, raised |-> result.raised,
                  before |-> fs]
    /\ UNCHANGED <<root_kind, include_user_scope, other_files, git,
                   scan_reversed, audit_vars, pc, run, stdout, stderr, status,
                   prev_stdout>>

CreateSubagentCall ==
    \E a \in CreateArgs :
        Called([op |-> "create", cwd |-> fn_in.cwd, args |-> a],
               CreateSubagent(fs, fn_in.cwd, a))

MoveSubagentCall ==
    \E name \in SubagentNames, to_scope \in {"user", "project"},
       overwrite \in BOOLEAN, outcome \in {"ok", "fail"} :
        Called([op |-> "move", cwd |-> fn_in.cwd,
                args |-> [name |-> name, to_scope |-> to_scope, overwrite |-> overwrite]],
               MoveSubagent(fs, fn_in.cwd, name, to_scope, overwrite, outcome))

DeleteSubagentCall ==
    \E name \in SubagentNames, scope \in {None, "user", "project"} :
        Called([op |-> "delete", cwd |-> fn_in.cwd,
                args |-> [name |-> name, scope |-> scope]],
               DeleteSubagent(fs, fn_in.cwd, name, scope))

SubagentsNext ==
    \/ CreateSubagentCall
    \/ MoveSubagentCall
    \/ DeleteSubagentCall

SpecSubagents == SubagentsInit /\ [][SubagentsNext]_vars

(***************************************************************************)
(* Properties of the audit.                                                *)
(***************************************************************************)
\* A report has been printed.
Reported == stdout # <<>>

\* Every P0 entry precedes every P1 entry, every P1 entry precedes every P2
\* entry, and entries of equal priority are in ascending order of category.
Ordered(entries) ==
    \A i, j \in 1..Len(entries) :
        i < j =>
            \/ PriorityRank(entries[i].priority) < PriorityRank(entries[j].priority)
            \/ /\ entries[i].priority = entries[j].priority
               /\ CategoryRank(entries[i].category) <= CategoryRank(entries[j].category)

\* The entries of a as a bag equal those of b.
SameEntries(a, b) ==
    /\ Len(a) = Len(b)
    /\ \A e \in {a[k] : k \in 1..Len(a)} :
          Cardinality({k \in 1..Len(a) : a[k] = e})
             = Cardinality({k \in 1..Len(b) : b[k] = e})

MixedEntries ==
    <<Entry("P2", "settings", FALSE, NoFile, Msg(MsgInvalidJson, 0, <<>>)),
      Entry("P0", "memory", FALSE, NoFile, Msg(MsgNoClaudeMd, 0, <<>>)),
      Entry("P1", "mcp", FALSE, NoFile, Msg(MsgManyServers, 0, <<>>))>>

\* C1: in every report the flattened issues and the flattened
\* recommendations are each ordered by priority first (P0, then P1, then P2)
\* and by category name within one priority; they hold exactly the entries
\* that were compiled; and P2/settings, P0/memory, P1/mcp is emitted as
\* P0/memory, P1/mcp, P2/settings.
C1_IssuesSortedByPriorityThenCategory ==
    /\ Reported =>
          /\ Ordered(stdout[1].issues)
          /\ Ordered(stdout[1].recommendations)
          /\ SameEntries(stdout[1].issues, all_issues)
          /\ SameEntries(stdout[1].recommendations, all_recommendations)
    /\ SortEntries(MixedEntries) = <<MixedEntries[2], MixedEntries[3], MixedEntries[1]>>

\* A report whose issues were compiled out of order, two entries of one
\* priority among them in descending order of category.
C1_Witness ==
    /\ Reported
    /\ \E i, j \in 1..Len(all_issues) :
          /\ i < j
          /\ all_issues[i].priority = all_issues[j].priority
          /\ CategoryRank(all_issues[i].category) > CategoryRank(all_issues[j].category)
    /\ \E i, j \in 1..Len(all_issues) :
          /\ i < j
          /\ PriorityRank(all_issues[i].priority) > PriorityRank(all_issues[j].priority)

\* The report recommends a retrieval layer: a P1 entry of category scale.
RecommendsScale(r) ==
    \E k \in 1..Len(r.recommendations) :
        /\ r.recommendations[k].priority = "P1"
        /\ r.recommendations[k].category = "scale"

\* C2: in every report repo_scale.is_large_repo is true exactly when
\* repo_scale.file_count is strictly greater than 3000, and a P1 scale
\* recommendation is present exactly when is_large_repo is true; a listing
\* of exactly 3000 tracked files gives false, one of 3001 gives true.
C2_LargeRepoStrictlyAbove3000 ==
    Reported =>
        LET r == stdout[1]
        IN  /\ r.repo_scale.is_large_repo = (r.repo_scale.file_count > 3000)
            /\ RecommendsScale(r) = r.repo_scale.is_large_repo
            /\ (tracked.listed /\ TrackedLen(tracked) = 3000)
                  => ~r.repo_scale.is_large_repo
            /\ (tracked.listed /\ TrackedLen(tracked) = 3001)
                  => r.repo_scale.is_large_repo

\* A report on exactly 3000 files.
C2_Witness ==
    /\ Reported
    /\ stdout[1].repo_scale.file_count = 3000
    /\ ~stdout[1].repo_scale.is_large_repo
    /\ ~RecommendsScale(stdout[1])

\* C3: whatever a discovered artifact contains, the analyzers raise no
\* exception, so that an audit of a directory, with the version-control tool
\* installed, ends with a complete report.
C3_NoAnalyzerAborts ==
    (/\ pc = "exit"
     /\ root_kind = "dir"
     /\ ~(IsGitRepo /\ git.tool = "absent")) => Reported

\* C4: an audit whose root exists and is a directory ends with status 0.
C4_DirectoryRootExitsZero ==
    (pc = "exit" /\ root_kind = "dir") => status = <<0>>

\* No discovery or analysis step has run.
NothingAnalysed ==
    /\ tracked = TrackedNone
    /\ memory_reports = <<>> /\ settings_reports = <<>> /\ mcp_reports = <<>>
    /\ skill_reports = <<>> /\ subagent_reports = <<>> /\ dir_stats = <<>>

\* C5: when the root does not exist or is not a directory, the run ends
\* before any discovery or analysis step, with a diagnostic on stderr, no
\* report on stdout and a non-zero status.
C5_BadRootAbortsBeforeAnalysis ==
    (root_kind # "dir" /\ pc # "main") =>
        /\ pc = "exit"
        /\ NothingAnalysed
        /\ stderr # <<>>
        /\ stdout = <<>>
        /\ status # <<>> /\ status # <<0>>

\* The files, with the one at path replaced by a well-formed empty object.
WithWellFormed(files, path) ==
    [f \in DOMAIN files |-> IF f = path THEN TxtEmptyObj ELSE files[f]]

\* What the categories other than settings report over the given files.
OtherCategoriesOn(files, dirs) ==
    [memory |->
        AnalyzeMemoryFiles(files, dirs,
            DiscoverMemoryFiles(Root,
                RGlobName(files, dirs, Root, ClaudeMd, scan_reversed),
                RGlobName(files, dirs, Root, ClaudeLocalMd, scan_reversed)),
            Root, tracked.listed, git.log),
     mcp |-> Kept(AnalyzeMcpConfigs(files, dirs, DiscoverMcpConfigs(Root))),
     skills |->
        Kept(AnalyzeSkills(files, dirs,
                           DiscoverSkills(files, dirs, Root, scan_reversed), Root)),
     subagents |->
        Kept(AnalyzeSubagents(files, dirs,
                              DiscoverSubagents(files, dirs, Root, scan_reversed),
                              Root)),
     hotspots |-> GetDirectoryStats(files, dirs, Bulk, Root, tracked, scan_reversed)]

\* The report r of the audit shows the other categories as `other` has them.
OthersAsIn(r, other) ==
    /\ memory_reports = other.memory
    /\ r.mcp_configuration.discovered_files = Existing(other.mcp)
    /\ r.skills.discovered = other.skills
    /\ r.subagents.discovered = other.subagents
    /\ r.repo_scale.top_level_dirs_by_file_count = other.hotspots

\* The settings entries the flattened issues hold for the file at path.
SettingsEntriesFor(issues, path) ==
    {i \in 1..Len(issues) :
        /\ issues[i].category = "settings"
        /\ issues[i].has_file
        /\ issues[i].file = path}

\* The settings report s of the report r is that of unparseable content.
ReportedAsInvalid(r, s) ==
    /\ s.issues = <<Msg(MsgInvalidJson, 0, <<>>)>>
    /\ ~s.has_allowed_tools /\ ~s.has_deny_tools
    /\ ~s.has_custom_instructions /\ ~s.has_mcp_servers
    /\ s.mcp_server_count = 0
    /\ Cardinality(SettingsEntriesFor(r.issues, s.path)) = 1
    /\ \A i \in SettingsEntriesFor(r.issues, s.path) :
          r.issues[i].message = Msg(MsgInvalidJson, 0, <<>>)
    /\ OthersAsIn(r, OtherCategoriesOn(WithWellFormed(Files, s.path), Dirs))

\* The settings files of the report whose content is not valid JSON.
HoldsNoJson(files, path) == path \in DOMAIN files /\ JsonLoads(files[path]) = JFail
InvalidSettings ==
    {k \in 1..Len(stdout[1].claude_settings.discovered_files) :
        HoldsNoJson(Files, stdout[1].claude_settings.discovered_files[k].path)}

\* C6: a discovered settings file whose content is not valid JSON is
\* reported with exactly one issue, "Invalid JSON format", with all its
\* flags false and no servers counted; the flattened issues hold exactly
\* one settings entry for it; and the other categories are reported as they
\* are when that file is well-formed.
C6_InvalidSettingsJsonIsOneIssue ==
    Reported =>
        \A k \in InvalidSettings :
            ReportedAsInvalid(stdout[1],
                              stdout[1].claude_settings.discovered_files[k])

\* A report over a project settings file that holds no valid JSON, next to
\* a memory document that is reported as well.
C6_Witness ==
    /\ Reported
    /\ InvalidSettings # {}
    /\ stdout[1].claude_memory.discovered_files # <<>>

\* C7: no step of the audit changes the filesystem or the version-control
\* state: every file and directory that exists before the run exists after
\* it with the same content, and nothing is added.
C7_AuditIsReadOnly ==
    [][/\ fs' = fs
       /\ other_files' = other_files
       /\ git' = git
       /\ root_kind' = root_kind]_vars

\* The audit has run to its report over a project that holds files.
C7_Witness ==
    /\ Reported
    /\ \E f \in DOMAIN fs : IsPrefix(Root, f)

\* The report with its generation time left out.
Timeless(r) == [r EXCEPT !.meta.generated_at = 0]

NoDotDot(path) == \A k \in 1..Len(path) : path[k] # DotDot

\* C9: a token starting with '~' resolves to a path under the user's home
\* directory, wherever the document lies; otherwise an absolute token is
\* the path itself; otherwise the token resolves below the directory of the
\* document, not below the scan root; and the token is recorded as missing
\* exactly when the resolved path does not exist.
C9_ReferenceResolution ==
    pc = "done" =>
        LET token == fn_in.token
            path == fn_out.path
            rel == PathOf(token)
        IN  /\ IF token[1] = "~" THEN IsPrefix(Home, path)
               ELSE IF token[1] = "/" THEN path = rel
               ELSE /\ path = Resolve(fn_in.base_dir \o rel)
                    /\ (NoDotDot(rel) /\ rel # <<>> /\ fn_in.base_dir # Root)
                          => (IsPrefix(fn_in.base_dir, path) /\ path # Root \o rel)
            /\ fn_out.missing_imports =
                  (IF PathExists(Files, Dirs, path) THEN <<>> ELSE <<token>>)

\* The matches the extractor keeps, by position in the text.
ReturnedMatches == ImportMatches(fn_in)

\* C10: the extractor returns the tokens that follow an '@' in order of
\* appearance, duplicates included; no returned token's '@' directly
\* follows a backtick; and no returned token is part of a token with a
\* second '@', that is, none is directly followed by an '@'.
C10_ExtractorExclusions ==
    pc = "done" =>
        /\ Len(fn_out) = Len(ReturnedMatches)
        /\ \A k \in 1..Len(fn_out) :
              LET m == ReturnedMatches[k]
              IN  /\ fn_in[m.start] = "@"
                  /\ fn_out[k] = Strip(SubSeq(fn_in, m.start + 1, m.stop))
                  /\ (k > 1 => ReturnedMatches[k-1].stop < m.start)
                  /\ (m.start > 1 => fn_in[m.start - 1] # Backtick)
                  /\ ~(/\ m.stop < Len(fn_in)
                       /\ fn_in[m.stop + 1] = "@"
                       /\ ~IsSpace(fn_in[m.stop]))

(***************************************************************************)
(* Properties of the memory reports.                                       *)
(***************************************************************************)
\* The elements of a sequence.
Range(seq) == {seq[k] : k \in 1..Len(seq)}

\* The report of a path that does not exist carries nothing.
BlankMemoryReport(r) ==
    /\ r.bytes = 0 /\ r.lines = 0 /\ r.word_count = 0 /\ r.heading_count = 0
    /\ ~r.has_headings
    /\ r.imports = <<>> /\ r.missing_imports = <<>>
    /\ r.issues = <<>> /\ r.recommendations = <<>>

\* C11: in every memory report the missing references are among the
\* extracted references; and a report whose path does not exist has zero
\* bytes, lines, words and headings, has_headings false, and no references,
\* missing references, issues or recommendations.
C11_MemoryReportInvariants ==
    \A k \in 1..Len(memory_reports) :
        /\ Range(memory_reports[k].missing_imports)
              \subseteq Range(memory_reports[k].imports)
        /\ ~memory_reports[k].exists => BlankMemoryReport(memory_reports[k])

\* The memory documents were analysed: one has a reference that resolves
\* to nothing, and a standard location of local scope holds no document.
C11_Witness ==
    /\ \E k \in 1..Len(memory_reports) : memory_reports[k].missing_imports # <<>>
    /\ \E k \in 1..Len(memory_reports) :
          ~memory_reports[k].exists /\ memory_reports[k].scope = "local"

(***************************************************************************)
(* Candidate paths that do not exist.                                      *)
(***************************************************************************)
\* No record of the list is about the path.
NoRecordOf(records, path) == \A k \in 1..Len(records) : records[k].path # path
\* No entry of the category is about the path.
NoEntryOn(entries, category, path) ==
    \A k \in 1..Len(entries) :
        ~(/\ entries[k].category = category
          /\ entries[k].has_file
          /\ entries[k].file = path)
\* The list holds a blank record of a missing document at the path.
ListedAsMissing(records, path) ==
    \E k \in 1..Len(records) :
        /\ records[k].path = path
        /\ ~records[k].exists
        /\ records[k].issues = <<>>
        /\ records[k].recommendations = <<>>

\* The places where settings files, connector configurations, skills and
\* subagents are looked for.
SettingsPlaces ==
    {Append(ClaudeDir(Home), SettingsJson), Append(ClaudeDir(Root), SettingsJson),
     Append(ClaudeDir(Root), SettingsLocalJson), EtcSettings, HomeManagedSettings}
McpPlaces ==
    {Append(ClaudeDir(Home), McpJson), Append(Root, DotMcpJson),
     Append(ClaudeDir(Root), McpJson)}
SkillPlaces == {Append(SkillsDir(Home), <<"s1">>), Append(SkillsDir(Root), <<"s1">>)}
AgentPlaces ==
    {Append(AgentsDir(Home), <<"a1", ".", "md">>),
     Append(AgentsDir(Root), <<"a1", ".", "md">>)}

\* C12: a candidate path that does not exist yields, for a standard
\* location of a memory document, a report with exists false and no issue
\* and no recommendation; for a settings file, a connector configuration, a
\* skill or a subagent, no record in the discovered list of the printed
\* report and no issue.
C12_AbsentCandidates ==
    Reported =>
        /\ \A k \in 1..Len(StandardMemoryLocations(Root)) :
              ~IsFile(Files, Dirs, StandardMemoryLocations(Root)[k].path) =>
                 /\ ListedAsMissing(
                       stdout[1].claude_memory.missing_standard_locations,
                       RelativeTo(StandardMemoryLocations(Root)[k].path, Root))
                 /\ NoRecordOf(stdout[1].claude_memory.discovered_files,
                       RelativeTo(StandardMemoryLocations(Root)[k].path, Root))
                 /\ NoEntryOn(stdout[1].issues \o stdout[1].recommendations, "memory",
                       RelativeTo(StandardMemoryLocations(Root)[k].path, Root))
        /\ \A p \in SettingsPlaces :
              ~PathExists(Files, Dirs, p) =>
                 /\ NoRecordOf(stdout[1].claude_settings.discovered_files, p)
                 /\ NoEntryOn(stdout[1].issues, "settings", p)
        /\ \A p \in McpPlaces :
              ~PathExists(Files, Dirs, p) =>
                 /\ NoRecordOf(stdout[1].mcp_configuration.discovered_files, p)
                 /\ NoEntryOn(stdout[1].issues, "mcp", p)
        /\ \A p \in SkillPlaces :
              ~PathExists(Files, Dirs, Append(p, SkillMd)) =>
                 /\ NoRecordOf(stdout[1].skills.discovered, RelativeTo(p, Root))
                 /\ NoEntryOn(stdout[1].issues, "skills", RelativeTo(p, Root))
        /\ \A p \in AgentPlaces :
              ~PathExists(Files, Dirs, p) =>
                 NoRecordOf(stdout[1].subagents.discovered, RelativeTo(p, Root))

\* A report on a project with one settings file and one connector
\* configuration, the other places being empty.
C12_Witness ==
    /\ Reported
    /\ Len(stdout[1].claude_settings.discovered_files) = 1
    /\ Len(stdout[1].mcp_configuration.discovered_files) = 1
    /\ stdout[1].skills.discovered = <<>>
    /\ Len(stdout[1].claude_memory.missing_standard_locations) = 4

(***************************************************************************)
(* The version-control bridge.                                             *)
(***************************************************************************)
\* None of the analyzers and no directory listing raises in this environment.
NoAnalyzerRaises ==
    /\ ~AnySettingsRaises(Files, Dirs, SettingsCandidates)
    /\ ~AnyMcpRaises(Files, Dirs, McpCandidates)
    /\ ~DirectoryStatsRaises(Dirs, Root, tracked)

\* C13: when the root is a repository and the version-control tool is not
\* installed or exits non-zero, the bridge does not raise: the tracked list
\* is None, the file count comes from the filesystem walk, the audit goes on
\* to the memory documents, and it ends with a report.
C13_GitBridgeNeverRaises ==
    (root_kind = "dir" /\ git.dir /\ git.tool \in {"absent", "fail"}) =>
        /\ pc \notin {"main", "scale"} =>
              /\ ~tracked.listed
              /\ file_count_source = SourceWalk
              /\ pc # "memory" => memory_reports # <<>>
        /\ (pc = "exit" /\ NoAnalyzerRaises) => Reported

\* C14: no call of the version-control tool blocks the audit: a process that
\* has not exited can always take its next step, and when the tool does not
\* return, the datum it was asked for is None (no tracked list, the file
\* count taken from the walk; no commit time in any memory report).
C14_GitCallsAreBounded ==
    /\ pc # "exit" => ENABLED Next
    /\ (git.tool = Hang /\ pc \notin {"main", "scale"}) =>
          (~tracked.listed /\ file_count_source = SourceWalk)
    /\ git.log = Hang =>
          \A k \in 1..Len(memory_reports) :
              memory_reports[k].last_git_commit_iso = None

(***************************************************************************)
(* The user scope.                                                         *)
(***************************************************************************)
\* The record or entry is about an artifact under the user's home directory.
\* The paths of skills and subagents outside the scan root, and those of
\* settings files and connector configurations, are absolute.
UnderHome(path) == IsPrefix(Home, path)
NoneUnderHome(records) ==
    \A k \in 1..Len(records) : ~UnderHome(records[k].path)
NoEntryUnderHome(entries, categories) ==
    \A k \in 1..Len(entries) :
        (entries[k].category \in categories /\ entries[k].has_file)
            => ~UnderHome(entries[k].file)

\* C15: in a report printed without --include-user-scope, the settings,
\* connector, skill and subagent sections and the issues of these categories
\* hold no artifact that lies under the user's home directory; the memory
\* section covers the four standard locations of the project with or
\* without the flag.
C15_NoUserScopeWithoutFlag ==
    Reported =>
        /\ ~include_user_scope =>
              /\ NoneUnderHome(stdout[1].claude_settings.discovered_files)
              /\ NoneUnderHome(stdout[1].mcp_configuration.discovered_files)
              /\ NoneUnderHome(stdout[1].skills.discovered)
              /\ NoneUnderHome(stdout[1].subagents.discovered)
              /\ NoEntryUnderHome(stdout[1].issues,
                                  {"settings", "mcp", "skills", "subagents"})
        /\ \A k \in 1..Len(StandardMemoryLocations(Root)) :
              ~NoRecordOf(stdout[1].claude_memory.discovered_files
                            \o stdout[1].claude_memory.missing_standard_locations,
                          RelativeTo(StandardMemoryLocations(Root)[k].path, Root))

(***************************************************************************)
(* The size and the structure of memory documents.                         *)
(***************************************************************************)
\* The entries about the path whose message has the given text.
EntryWith(entries, category, path, text) ==
    {k \in 1..Len(entries) :
        /\ entries[k].category = category
        /\ entries[k].has_file
        /\ entries[k].file = path
        /\ entries[k].message.text = text}

MsgVeryLarge == "Very large (n lines); consider splitting via @imports"
MsgNoHeadings == "No markdown headings; structure may be hard for agents to parse"
MsgAddHeadings == "Add section headings for Commands, Architecture, Conventions, etc."

\* The first lexemes of the lines of a text: the first lexeme of the text and
\* every lexeme after one that ends with a newline.
LineStarts(text) ==
    {i \in 1..Len(text) : i = 1 \/ Newlines(text[i-1]) > 0}
\* The line starting at i begins with one to six '#' followed by whitespace.
HeadingLine(text, i) ==
    \E n \in 1..6 :
        /\ i + n <= Len(text)
        /\ \A j \in 0..(n - 1) : text[i + j] = "#"
        /\ text[i + n] \in SpaceLex
\* The memory document the record is about.
DocumentOf(r) == TextAt(Files, Root \o r.path)

\* The record of a memory document and the flattened lists agree with the
\* document on its size and on its headings.
SizeAndHeadingsReported(r, text, issues, recs) ==
    /\ r.lines > 500 =>
          \E k \in EntryWith(issues, "memory", r.path, MsgVeryLarge) :
              issues[k].priority = "P2" /\ issues[k].message.n = r.lines
    /\ (EntryWith(issues, "memory", r.path, MsgNoHeadings) # {})
          <=> ~\E i \in LineStarts(text) : HeadingLine(text, i)
    /\ (EntryWith(issues, "memory", r.path, MsgNoHeadings) # {})
          <=> (EntryWith(recs, "memory", r.path, MsgAddHeadings) # {})

\* C16: for every memory document that exists, a line count above 500
\* yields the 'very large' issue among the flattened issues with priority
\* P2; the 'no headings' issue, with the 'add section headings'
\* recommendation, is present exactly when no line of the document starts
\* with one to six '#' followed by whitespace; and the document of 600 lines
\* with three heading lines gets the 'very large' issue of priority P2 and
\* no 'no headings' issue.
C16_VeryLargeAndHeadings ==
    Reported =>
        /\ \A k \in 1..Len(stdout[1].claude_memory.discovered_files) :
              SizeAndHeadingsReported(
                 stdout[1].claude_memory.discovered_files[k],
                 DocumentOf(stdout[1].claude_memory.discovered_files[k]),
                 stdout[1].issues, stdout[1].recommendations)
        /\ (Append(Root, ClaudeMd) \in DOMAIN Files
            /\ Files[Append(Root, ClaudeMd)] = Doc600) =>
              /\ \E k \in EntryWith(stdout[1].issues, "memory", <<ClaudeMd>>,
                                    MsgVeryLarge) :
                    /\ stdout[1].issues[k].priority = "P2"
                    /\ stdout[1].issues[k].message.n = 600
              /\ EntryWith(stdout[1].issues, "memory", <<ClaudeMd>>,
                           MsgNoHeadings) = {}
              /\ stdout[1].claude_memory.discovered_files[1].heading_count = 3

\* A report on the document of 600 lines with three headings.
C16_Witness ==
    /\ Reported
    /\ Append(Root, ClaudeMd) \in DOMAIN Files
    /\ Files[Append(Root, ClaudeMd)] = Doc600
    /\ stdout[1].claude_memory.discovered_files[1].lines = 600

(***************************************************************************)
(* Memory discovery.                                                       *)
(***************************************************************************)
\* The four standard locations, relative to the scan root.
StandardRelPaths ==
    {RelativeTo(StandardMemoryLocations(Root)[k].path, Root) :
        k \in 1..Len(StandardMemoryLocations(Root))}

\* C17: memory discovery returns each path at most once, a standard
\* location with scope project or local and never as a nested document, and
\* no document that lies inside a housekeeping directory (.git,
\* node_modules, dist, build, .venv, __pycache__).  The reports are one per
\* discovered path, in order.
C17_MemoryDiscoveryUniqueAndClean ==
    /\ \A i, j \in 1..Len(memory_reports) :
          i # j => memory_reports[i].path # memory_reports[j].path
    /\ \A k \in 1..Len(memory_reports) :
          /\ memory_reports[k].path \in StandardRelPaths
                => memory_reports[k].scope \in {"project", "local"}
          /\ \A part \in Range(memory_reports[k].path) :
                part \notin HousekeepingDirs

(***************************************************************************)
(* The 'No CLAUDE.md found' issue.                                         *)
(***************************************************************************)
\* The positions of the 'No CLAUDE.md found' entries.
NoClaudeMdEntries(entries) ==
    {k \in 1..Len(entries) :
        entries[k].priority = "P0" /\ entries[k].message.text = MsgNoClaudeMd}

\* The memory documents below the scan root: the files named CLAUDE.md or
\* CLAUDE.local.md, at any depth.
MemoryDocuments(files) ==
    {f \in DOMAIN files :
        /\ IsPrefix(Root, f) /\ f # Root
        /\ f[Len(f)] \in {ClaudeMd, ClaudeLocalMd}}

\* C18: the flattened issues of a report hold the P0 issue 'No CLAUDE.md
\* found' exactly when no discovered memory document of any scope exists;
\* it is then of category memory, names no file and is the first issue.
C18_NoClaudeMdIssue ==
    Reported =>
        /\ (NoClaudeMdEntries(stdout[1].issues) # {})
              <=> (MemoryDocuments(Files) = {})
        /\ (NoClaudeMdEntries(stdout[1].issues) # {})
              <=> (stdout[1].claude_memory.discovered_files = <<>>)
        /\ \A k \in NoClaudeMdEntries(stdout[1].issues) :
              /\ k = 1
              /\ stdout[1].issues[k].category = "memory"
              /\ ~stdout[1].issues[k].has_file

\* A report on a project without any memory document and with an issue of
\* another category, which comes after the P0 issue.
C18_Witness ==
    /\ Reported
    /\ NoClaudeMdEntries(stdout[1].issues) = {1}
    /\ Len(stdout[1].issues) > 1

(***************************************************************************)
(* The line-count thresholds of memory documents.                          *)
(***************************************************************************)
MsgConsiderSplitting == "Consider splitting larger sections into @imported files"
\* One of the messages has the text.
HasMsg(msgs, text) == \E k \in 1..Len(msgs) : msgs[k].text = text

\* The 'very large' issue and the 'consider splitting' recommendation of a
\* report follow its line count, the recommendation being made from the
\* given line count on.
SplitAdvice(r, from) ==
    /\ r.lines > 500 => HasMsg(r.issues, MsgVeryLarge)
    /\ (from <= r.lines /\ r.lines <= 500) =>
          /\ HasMsg(r.recommendations, MsgConsiderSplitting)
          /\ ~HasMsg(r.issues, MsgVeryLarge)
    /\ r.lines < from =>
          /\ ~HasMsg(r.recommendations, MsgConsiderSplitting)
          /\ ~HasMsg(r.issues, MsgVeryLarge)

\* C19 as claimed: a line count above 500 yields the 'very large' issue; a
\* line count of 300 to 500, both included, yields the 'consider splitting'
\* recommendation and no 'very large' issue; below 300 neither is emitted.
C19_SplitFrom300 ==
    \A k \in 1..Len(memory_reports) :
        memory_reports[k].exists => SplitAdvice(memory_reports[k], 300)

\* C19: a line count above 500 yields the 'very large' issue; a line count
\* of 301 to 500, both included, yields the 'consider splitting'
\* recommendation and no 'very large' issue; at 300 lines or fewer neither
\* is emitted.
C19_SplitAbove300 ==
    \A k \in 1..Len(memory_reports) :
        memory_reports[k].exists => SplitAdvice(memory_reports[k], 301)

\* A memory document of exactly 300 lines was analysed: no advice to split.
C19_Witness ==
    \E k \in 1..Len(memory_reports) :
        /\ memory_reports[k].exists
        /\ memory_reports[k].lines = 300
        /\ ~HasMsg(memory_reports[k].recommendations, MsgConsiderSplitting)

(***************************************************************************)
(* Line counts.                                                            *)
(***************************************************************************)
\* The number of newline characters of a text, plus one if the text is not
\* empty.
NewlinesPlusOneIfNonEmpty(text) ==
    CountNewlines(text) + (IF Len(text) > 0 THEN 1 ELSE 0)
\* The file a report's path names: the path is relative to the scan root
\* when the artifact lies below it.
Located(path) == IF IsAbsolute(path) THEN path ELSE Root \o path

\* C20: every line count the analyzers report for an existing file (lines
\* of a memory document, skill_md_lines of a skill, agent_md_lines of a
\* subagent) is the number of newline characters of the file plus one if
\* the file is not empty, hence 0 for an empty file.
C20_LineCounts ==
    /\ \A k \in 1..Len(memory_reports) :
          memory_reports[k].exists =>
             memory_reports[k].lines =
                NewlinesPlusOneIfNonEmpty(
                   TextAt(Files, Located(memory_reports[k].path)))
    /\ \A k \in 1..Len(skill_reports) :
          skill_reports[k].skill_md_lines =
             NewlinesPlusOneIfNonEmpty(
                TextAt(Files, Append(Located(skill_reports[k].path), SkillMd)))
    /\ \A k \in 1..Len(subagent_reports) :
          subagent_reports[k].agent_md_lines =
             NewlinesPlusOneIfNonEmpty(
                TextAt(Files, Located(subagent_reports[k].path)))

(***************************************************************************)
(* Repo scale and directory hotspots.                                      *)
(***************************************************************************)
\* The plain files below the scan root with no housekeeping directory among
\* the components of their path: those of the filesystem, and the further
\* files in src/.
CountedFiles ==
    {f \in DOMAIN fs :
        /\ IsPrefix(Root, f)
        /\ \A k \in 1..Len(f) : f[k] \notin HousekeepingDirs}
\* The number of paths the version-control tool lists.
TrackedFiles == SumCounts(git.groups)

RECURSIVE TrackedUnder(_, _)
TrackedUnder(groups, top) ==
    IF groups = <<>> THEN 0
    ELSE (IF Head(groups).top = top THEN Head(groups).n ELSE 0)
         + TrackedUnder(Tail(groups), top)
\* The top-level entries of the tracked paths.
TrackedTops(groups) ==
    {groups[k].top : k \in {j \in 1..Len(groups) : groups[j].n > 0}}
\* The sum of the counts of a hotspot list.
RECURSIVE SumFiles(_)
SumFiles(h) == IF h = <<>> THEN 0 ELSE Head(h).files + SumFiles(Tail(h))

\* The hotspot list h of a report with the given file count.
HotspotsWellFormed(h, count) ==
    /\ Len(h) <= 20
    /\ \A i, j \in 1..Len(h) : i < j => h[i].files >= h[j].files
    /\ \A i, j \in 1..Len(h) : i # j => h[i].dir # h[j].dir
    /\ IF git.dir /\ git.tool = "ok"
       THEN /\ \A k \in 1..Len(h) :
                  /\ h[k].dir \in TrackedTops(git.groups)
                  /\ h[k].files = TrackedUnder(git.groups, h[k].dir)
            /\ Cardinality(TrackedTops(git.groups)) <= 20 => SumFiles(h) = count
       ELSE \A k \in 1..Len(h) : h[k].dir \notin HousekeepingDirs

\* C22: the hotspot list of a report has at most 20 entries, is ordered by
\* file count descending and names each top-level directory once at most.
\* With a tracked list each path is counted under the part before its first
\* separator ('.' without one), so with at most 20 distinct top-level
\* entries the counts sum to file_count; without a tracked list no
\* housekeeping directory is a hotspot.
C22_Hotspots ==
    Reported =>
        HotspotsWellFormed(stdout[1].repo_scale.top_level_dirs_by_file_count,
                           stdout[1].repo_scale.file_count)

\* A report on a listing with 21 top-level entries: the list holds 20 of
\* them, the top level first with its two files.
C22_Witness ==
    /\ Reported
    /\ git.groups = ManyTops
    /\ Len(stdout[1].repo_scale.top_level_dirs_by_file_count) = 20
    /\ stdout[1].repo_scale.top_level_dirs_by_file_count[1]
          = [dir |-> Dot, files |-> 2]

(***************************************************************************)
(* Skills.                                                                 *)
(***************************************************************************)
MsgSkillVeryLarge == "SKILL.md very large (n lines); consider using references/"
\* A line of three dashes starts at i.
DashLineAt(text, i) ==
    /\ i + 2 <= Len(text)
    /\ (i = 1 \/ Newlines(text[i-1]) > 0)
    /\ \A j \in i..(i + 2) : text[j] = "-"
    /\ (i + 3 <= Len(text) => Newlines(text[i+3]) > 0)
\* The header region of a SKILL.md: the lexemes between the line of dashes
\* that opens the text and the next line of dashes.
HeaderClosings(text) == {i \in 4..Len(text) : DashLineAt(text, i)}
HeaderRegion(text) ==
    IF DashLineAt(text, 1) /\ HeaderClosings(text) # {}
    THEN 4..(CHOOSE i \in HeaderClosings(text) :
                \A j \in HeaderClosings(text) : i <= j)
    ELSE {}
\* 'description:' occurs in the header region.
DescriptionInHeader(text) ==
    \E i \in HeaderRegion(text) :
        i + 1 \in HeaderRegion(text) /\ text[i] = "description" /\ text[i+1] = ":"

\* The report of a skill whose SKILL.md holds the text.
SkillAsClaimed(r, text) ==
    /\ ~DescriptionInHeader(text) =>
          (~r.has_description /\ HasMsg(r.issues, MsgSkillNoDescription))
    /\ HasMsg(r.issues, MsgSkillVeryLarge) <=> r.skill_md_lines > 500

\* C23: a skill gets the 'missing description' issue and has_description
\* false whenever its SKILL.md has no 'description:' in its header region,
\* also when 'description:' occurs only in the body below the header; and
\* it gets the 'very large' issue exactly when the line count of its
\* SKILL.md exceeds 500.
C23_SkillDescriptionAndSize ==
    \A k \in 1..Len(skill_reports) :
        SkillAsClaimed(skill_reports[k],
                       TextAt(Files, Append(Located(skill_reports[k].path), SkillMd)))

(***************************************************************************)
(* Service-connector configs.                                              *)
(***************************************************************************)
\* The sum of server_count over the first n records.
RECURSIVE ServerCountSum(_, _)
ServerCountSum(records, n) ==
    IF n = 0 THEN 0
    ELSE ServerCountSum(records, n - 1) + records[n].server_count

\* The record of an existing connector config whose text parses as doc.
McpAsClaimed(r, doc) ==
    /\ IsDict(doc) =>
          /\ r.server_count = Len(r.servers)
          /\ HasMsg(r.issues, MsgManyServers) <=> r.server_count > 10
    /\ doc = JFail =>
          /\ r.issues = <<Msg(MsgInvalidJson, 0, <<>>)>>
          /\ r.server_count = 0

\* C24: the record of an existing, well-formed connector config has
\* server_count equal to the number of entries of servers and carries the
\* 'many connectors' issue exactly when server_count exceeds 10; the record
\* of a malformed one has exactly the 'invalid JSON' issue and server_count
\* 0; and total_servers of a report is the sum of server_count over the
\* connector configs of its discovered_files.
C24_ConnectorCounts ==
    /\ \A k \in 1..Len(mcp_reports) :
          mcp_reports[k].exists =>
              McpAsClaimed(mcp_reports[k],
                           JsonLoads(TextAt(Files, Located(mcp_reports[k].path))))
    /\ Reported =>
          stdout[1].mcp_configuration.total_servers
             = ServerCountSum(stdout[1].mcp_configuration.discovered_files,
                              Len(stdout[1].mcp_configuration.discovered_files))

\* A report on two connector configs, of eleven servers and of one: the
\* first carries the 'many connectors' issue and the total is twelve.
C24_Witness ==
    /\ Reported
    /\ Len(stdout[1].mcp_configuration.discovered_files) = 2
    /\ stdout[1].mcp_configuration.discovered_files[1].server_count = 11
    /\ HasMsg(stdout[1].mcp_configuration.discovered_files[1].issues, MsgManyServers)
    /\ stdout[1].mcp_configuration.total_servers = 12

(***************************************************************************)
(* Settings files.                                                         *)
(***************************************************************************)
\* The allow-list of a parsed settings document: a list, empty when the
\* document has none.
AllowList(doc) ==
    IF SettingsAllow(doc).t = "list" THEN SettingsAllow(doc).items ELSE <<>>
\* The settings document is an object whose allow-list, when it has one, is
\* a list of strings.
WellFormedSettings(doc) ==
    /\ IsDict(doc)
    /\ IsDict(SettingsPermissions(doc))
    /\ SettingsAllow(doc).t \in {"null", "list"}
    /\ HasLen(SettingsServers(doc))
\* Bash(*) is one of the entries.
ListsBashStar(entries) ==
    \E k \in 1..Len(entries) : entries[k] = JStr(BashStar)

\* C25: the record of a well-formed settings file carries the 'overly
\* permissive' issue if and only if Bash(*) is one of the entries of its
\* allow-list; with restricted entries only, or an absent or empty
\* allow-list, it does not carry it.
C25_OverlyPermissiveIffBashStar ==
    \A k \in 1..Len(settings_reports) :
        (/\ settings_reports[k].exists
         /\ WellFormedSettings(JsonLoads(TextAt(Files, settings_reports[k].path))))
        => (HasMsg(settings_reports[k].issues, MsgOverlyPermissive)
              <=> ListsBashStar(AllowList(JsonLoads(TextAt(Files, settings_reports[k].path)))))

(***************************************************************************)
(* Completion order of the category analyzers.                             *)
(***************************************************************************)
Analyzers == <<"memory", "settings", "mcp", "skills", "subagents">>

\* The issue entries audit() compiles from the records of one analyzer.
IssueBlock(c) ==
    CASE c = "memory" ->
            CompileIssues(memory_reports, <<>>, <<>>, <<>>)
      [] c = "settings" ->
            Flatten([k \in 1..Len(settings_reports) |->
                        IssueEntries(settings_reports[k], "P1", "settings")])
      [] c = "mcp" ->
            Flatten([k \in 1..Len(mcp_reports) |->
                        IssueEntries(mcp_reports[k], "P2", "mcp")])
      [] c = "skills" ->
            Flatten([k \in 1..Len(skill_reports) |->
                        IssueEntries(skill_reports[k], "P2", "skills")])
      [] c = "subagents" -> <<>>
\* The recommendation entries compiled from the records of one analyzer,
\* and under "scale" the large-repo recommendation audit() adds itself.
RecommendationBlock(c) ==
    CASE c = "memory" ->
            Flatten([k \in 1..Len(memory_reports) |->
                        MemoryRecEntries(memory_reports[k])])
      [] c = "scale" -> CompileRecommendations(<<>>, large_repo, file_count)
      [] OTHER -> <<>>

\* The orders in which the members of S can complete.  An analyzer that
\* contributes no entry leaves the compiled list the same wherever it
\* completes, so the orders of the contributing ones stand for all orders
\* of the five.
OrdersOf(S) ==
    {p \in [1..Cardinality(S) -> S] :
        \A i, j \in 1..Cardinality(S) : p[i] = p[j] => i = j}
IssueContributors == {c \in Range(Analyzers) : IssueBlock(c) # <<>>}
RecommendationContributors ==
    {c \in {"memory", "scale"} : RecommendationBlock(c) # <<>>}
\* The lists compiled when the contributors complete in the order p.
IssuesInOrder(p) == Flatten([k \in DOMAIN p |-> IssueBlock(p[k])])
RecommendationsInOrder(p) == Flatten([k \in DOMAIN p |-> RecommendationBlock(p[k])])

\* Entries of the blocks of two different analyzers never have the same
\* sort key.
KeysTellAnalyzersApart ==
    \A c, d \in IssueContributors :
        c # d => \A e \in Range(IssueBlock(c)), f \in Range(IssueBlock(d)) :
                    SortKey(e) # SortKey(f)

\* C26: whatever the order in which the five category analyzers complete
\* (each category's records in discovery order), the final (priority,
\* category) sort yields the issues and recommendations lists of the
\* sequential run, because entries with equal sort keys always come from
\* the same category.
C26_CompletionOrderIrrelevant ==
    Reported =>
        /\ IssuesInOrder(Analyzers) = all_issues
        /\ RecommendationsInOrder(<<"memory", "scale">>) = all_recommendations
        /\ KeysTellAnalyzersApart
        /\ \A p \in OrdersOf(IssueContributors) :
              SortEntries(IssuesInOrder(p)) = stdout[1].issues
        /\ \A p \in OrdersOf(RecommendationContributors) :
              SortEntries(RecommendationsInOrder(p)) = stdout[1].recommendations

\* A report with issues of the same priority from two analyzers, which a
\* different completion order compiles in a different order.
C26_Witness ==
    /\ Reported
    /\ IssueBlock("mcp") # <<>>
    /\ IssueBlock("skills") # <<>>
    /\ \E p \in OrdersOf(IssueContributors) : IssuesInOrder(p) # all_issues

(***************************************************************************)
(* Skill names.                                                            *)
(***************************************************************************)
\* The name holds one of the characters.
HasChar(name, chars) == \E k \in 1..Len(name) : name[k].c \in chars
\* The path is a direct child of base: base and one more part, which is
\* not '..'.
DirectChildOf(path, base) ==
    /\ Len(path) = Len(base) + 1
    /\ SubSeq(path, 1, Len(base)) = base
    /\ path[Len(path)] # <<CharRun(".", 2)>>

\* C27: the result of sanitize_name is non-empty, at most 255 characters
\* long, holds none of '/', '\', ':' and NUL and does not begin with '.',
\* so the target path of install_skill is a direct child of the skills
\* directory; and sanitize_name returns its own result unchanged.
C27_SanitizeName ==
    pc = "done" =>
        /\ fn_out.skill_name # <<>>
        /\ NameLen(fn_out.skill_name) <= 255
        /\ ~HasChar(fn_out.skill_name, {"/", Backslash, ":", Nul})
        /\ fn_out.skill_name[1].c # "."
        /\ DirectChildOf(fn_out.target_path, SkillsBase)
        /\ SanitizeName(fn_out.skill_name) = fn_out.skill_name

(***************************************************************************)
(* The shapes of the issue entries.                                        *)
(***************************************************************************)
\* The (category, priority) shape of one entry of the issues list.
IssueShapeOk(e) ==
    CASE e.category = "settings" -> e.has_file /\ e.priority = "P1"
      [] e.category = "mcp" -> e.has_file /\ e.priority = "P2"
      [] e.category = "skills" -> e.has_file /\ e.priority = "P2"
      [] e.category = "memory" ->
            IF e.has_file
            THEN /\ e.priority \in {"P1", "P2"}
                 /\ e.priority = "P1" <=> e.message.text = MsgMissingImports
            ELSE e.priority = "P0" /\ e.message.text = MsgNoClaudeMd
      [] OTHER -> FALSE
\* The discovered list of a category in the report.
DiscoveredOf(rep, category) ==
    CASE category = "memory" -> rep.claude_memory.discovered_files
      [] category = "settings" -> rep.claude_settings.discovered_files
      [] category = "mcp" -> rep.mcp_configuration.discovered_files
      [] category = "skills" -> rep.skills.discovered
      [] OTHER -> <<>>
\* The entry's file is a record of its category's discovered list, and the
\* record holds the entry's message among its issues.
IssueFileListed(rep, e) ==
    e.has_file =>
        \E k \in 1..Len(DiscoveredOf(rep, e.category)) :
            /\ DiscoveredOf(rep, e.category)[k].path = e.file
            /\ e.message \in Range(DiscoveredOf(rep, e.category)[k].issues)

\* C28: in a report every issue entry has one of the shapes: settings P1;
\* mcp and skills P2; memory with a file P1 exactly for the missing
\* references issue and P2 otherwise; P0 only for the file-less 'No
\* CLAUDE.md found' issue; none from subagents.  Every issue with a file
\* refers to a record of its category's discovered list in the same report.
C28_IssueShapes ==
    Reported =>
        \A k \in 1..Len(stdout[1].issues) :
            /\ IssueShapeOk(stdout[1].issues[k])
            /\ IssueFileListed(stdout[1], stdout[1].issues[k])

\* A report with a P1 and a P2 issue on memory documents and an issue of
\* another category.
C28_Witness ==
    /\ Reported
    /\ \E k \in 1..Len(stdout[1].issues) :
          /\ stdout[1].issues[k].category = "memory"
          /\ stdout[1].issues[k].priority = "P1"
    /\ \E k \in 1..Len(stdout[1].issues) :
          /\ stdout[1].issues[k].category = "memory"
          /\ stdout[1].issues[k].priority = "P2"
    /\ \E k \in 1..Len(stdout[1].issues) :
          stdout[1].issues[k].category \in {"settings", "mcp", "skills"}

(***************************************************************************)
(* Moving a skill.                                                         *)
(***************************************************************************)
\* The skill directory of the name in a scope, with all it holds.
SkillDirOf(files, scope) ==
    TreeAt(files, Append(ScopeSkillsDir(scope, fn_in.cwd), fn_in.name))
OtherScope(scope) == IF scope = "user" THEN "project" ELSE "user"

\* C29: when move_skill returns True the skill directory exists in the
\* target scope and no longer in the source scope; whenever it returns
\* False (not found, already in the target scope, target exists without
\* force, the move fails, also after a forced overwrite) the skill
\* directories of the user and the project scope are as before the call.
C29_MoveSkillAllOrNothing ==
    pc = "done" =>
        /\ fn_out.returned = True =>
              /\ SkillDirOf(fs, fn_in.to_scope) # NoFiles
              /\ SkillDirOf(fs, OtherScope(fn_in.to_scope)) = NoFiles
        /\ fn_out.returned = False =>
              /\ SkillDirOf(fs, "user") = SkillDirOf(fn_out.before, "user")
              /\ SkillDirOf(fs, "project") = SkillDirOf(fn_out.before, "project")

(***************************************************************************)
(* Creating, moving and deleting subagents.                                *)
(***************************************************************************)
\* The errors of a call that found something wrong before it did anything:
\* invalid name, subagent not found, already in the target scope, target
\* exists without overwrite.
ListedErrors == {"ValueError", "FileNotFoundError", "FileExistsError"}
\* A call has been made.
SubagentCalled(op) == fn_out # <<>> /\ fn_in.op = op
\* The file of the call's name in a scope.
CalledFile(scope) == AgentFile(ScopeAgentsDir(scope, fn_in.cwd), fn_in.args.name)
\* The project directory is not the user's home directory, so the two
\* scopes keep their files in different directories.
ScopesApart == fn_in.cwd # Home

\* An erroring call leaves every subagent file as it was.
ErrorsChangeNothing ==
    (fn_out # <<>> /\ fn_out.raised \in ListedErrors) => fs = fn_out.before
\* A successful move leaves the subagent at the target scope only.
MovedToTargetOnly ==
    (SubagentCalled("move") /\ fn_out.raised = None) =>
        /\ CalledFile(fn_in.args.to_scope) \in DOMAIN fs
        /\ CalledFile(OtherScope(fn_in.args.to_scope)) \notin DOMAIN fs
\* A name in both scopes, deleted without a scope: the project file goes,
\* the user file stays as it was.
DeleteTakesProjectCopy ==
    (/\ SubagentCalled("delete") /\ fn_in.args.scope = None
     /\ CalledFile("user") \in DOMAIN fn_out.before
     /\ CalledFile("project") \in DOMAIN fn_out.before)
    => /\ fn_out.raised = None
       /\ CalledFile("project") \notin DOMAIN fs
       /\ CalledFile("user") \in DOMAIN fs
       /\ fs[CalledFile("user")] = fn_out.before[CalledFile("user")]

\* C30 as stated: after any sequence of create, move and delete calls, a
\* call that ended in one of the listed errors left every subagent file
\* unchanged, a successful move left the subagent at the target scope
\* only, and a delete without scope of a name present in both scopes
\* removed the project file and left the user file intact.
C30_SubagentCalls ==
    /\ ErrorsChangeNothing
    /\ MovedToTargetOnly
    /\ DeleteTakesProjectCopy

\* C30, amended: the same, the last two parts for a project directory that
\* is not the user's home directory.
C30_SubagentCallsScopesApart ==
    /\ ErrorsChangeNothing
    /\ ScopesApart => (MovedToTargetOnly /\ DeleteTakesProjectCopy)

\* A name present in both scopes was deleted without a scope, after an
\* earlier call: the user file is still there.
C30_Witness ==
    /\ SubagentCalled("delete")
    /\ ScopesApart
    /\ clock = 3
    /\ fn_in.args.scope = None
    /\ CalledFile("user") \in DOMAIN fn_out.before
    /\ CalledFile("project") \in DOMAIN fn_out.before
    /\ CalledFile("user") \in DOMAIN fs

====
